---- MODULE Spec2Model ----
(***************************************************************************)
(* Polygon editing and erasure engine of ArcheoTrace: the undo/redo        *)
(* ledger (undo_commands.py driven by a QUndoStack), the node editor       *)
(* (editable_polygon_item.py) and the eraser gesture of the scene          *)
(* (ArtifactGraphicsScene.py).                                             *)
(***************************************************************************)
EXTENDS Integers, Sequences, FiniteSets, Bags, TLC

\* ------------------------------------------------------------------ bounds
\* Largest number of commands pushed onto the undo stack in one run.
MaxPushes == 2
\* Largest number of ArtifactPolygonItem objects alive at a time.
MaxItems == 5
\* Largest number of vertices of the polygon in the node editor.
MaxNodes == 4
\* Largest number of captured eraser points of one gesture.
MaxStroke == 3
\* Largest number of eraser path items in the scene at a time.
MaxPathItems == 2

\* ------------------------------------------------------------ value domains
\* Python's None, for the optional arguments of ModifyPolygonCommand.
None == "None"
\* Polygons of the ledger: sequences of (abstract) vertices; count() is Len.
Tri == <<1, 2, 3>>
TriB == <<1, 2, 4>>
Quad == <<1, 2, 3, 4>>
PolyVals == {Tri, TriB, Quad}
Texts == {"", "A", "B"}
\* The pen and brush of a freshly constructed QGraphicsPolygonItem.
DefaultPen == "black1"
DefaultBrush == "nobrush"
Pens == {DefaultPen, "red3", "blue1"}
Brushes == {DefaultBrush, "red50", "blue50"}

VARIABLES
    items,          \* every ArtifactPolygonItem constructed so far: id -> fields
    scene,          \* ids of the polygon items in the scene, in insertion order
    undoStack,      \* the QUndoStack's commands, oldest first
    index,          \* QUndoStack.index(): number of commands currently applied
    pending,        \* an ErasePolygonCommand constructed and not yet pushed
    op,             \* the last operation performed: [name, kind]
    emitted,        \* attribute_changed emissions during the last operation
    pushes,         \* number of commands pushed so far
    snaps,          \* history: the scene before and after each entry's mutation
    ep,             \* the EditablePolygonItem of the node editor
    er,             \* the scene's eraser state and the record of its last gesture
    mw              \* the main window's mode, the brush and free-hand strokes

vars == <<items, scene, undoStack, index, pending, op, emitted, pushes, snaps, ep, er, mw>>

\* ---------------------------------------------------------------- helpers
Range(s) == {s[k] : k \in 1..Len(s)}

Reverse(s) == [k \in 1..Len(s) |-> s[Len(s) + 1 - k]]

\* ------------------------------------------------------------ scene / items
\* ArtifactPolygonItem(polygon): empty label, default pen and brush.
NewItem(polygon) ==
    [polygon |-> polygon, text_attribute |-> "", pen |-> DefaultPen,
     brush |-> DefaultBrush]

\* item.scene() == self.scene
InScene(sc, i) == \E k \in 1..Len(sc) : sc[k] = i

\* QGraphicsScene.addItem: an item already in the scene is not added twice.
addItem(sc, i) == IF InScene(sc, i) THEN sc ELSE Append(sc, i)

\* QGraphicsScene.removeItem: an item that is not in the scene is left alone.
removeItem(sc, i) == SelectSeq(sc, LAMBDA x : x # i)

\* QGraphicsScene.items(): descending stacking order, last inserted first.
sceneItems(sc) == Reverse(sc)

\* ArtifactPolygonItem.set_text_attribute: stores the label; emits nothing.
set_text_attribute(its, i, text) == [its EXCEPT ![i].text_attribute = text]

\* The data dictionary {'polygon','text','pen','brush'} captured from an item.
ItemData(its, i) ==
    [polygon |-> its[i].polygon, text |-> its[i].text_attribute,
     pen |-> its[i].pen, brush |-> its[i].brush]

\* An item recreated from a data dictionary (the restore loops of the commands).
ItemFromData(d) ==
    [polygon |-> d.polygon, text_attribute |-> d.text, pen |-> d.pen,
     brush |-> d.brush]

\* The artifacts of the scene by value: (polygon, label, pen, brush) -> count.
SceneBag(its, sc) ==
    LET vals == {its[sc[k]] : k \in 1..Len(sc)}
    IN  [v \in vals |-> Cardinality({k \in 1..Len(sc) : its[sc[k]] = v})]

\* ------------------------------------------------------------ undo commands
\* A command object; each kind uses the fields its class declares.
NoCmd ==
    [kind |-> "None", polygon_item |-> 0,
     polygon |-> <<>>, text_attribute |-> "", pen |-> None, brush |-> None,
     old_polygon |-> <<>>, new_polygon |-> <<>>, old_text |-> None,
     new_text |-> None, old_pen |-> None, new_pen |-> None,
     old_brush |-> None, new_brush |-> None,
     original_items |-> <<>>, new_items |-> <<>>, original_data |-> <<>>,
     new_data |-> <<>>, redo_already_applied |-> FALSE, commands |-> <<>>]

\* AddPolygonCommand(scene, polygon_item)
AddPolygonCommand(i) == [NoCmd EXCEPT !.kind = "Add", !.polygon_item = i]

\* DeletePolygonCommand(scene, polygon_item): captures the item's data.
DeletePolygonCommand(its, i) ==
    [NoCmd EXCEPT !.kind = "Delete", !.polygon_item = i,
                  !.polygon = its[i].polygon,
                  !.text_attribute = its[i].text_attribute,
                  !.pen = its[i].pen, !.brush = its[i].brush]

\* ModifyPolygonCommand(scene, item, old_polygon, new_polygon, old_text, ...)
ModifyPolygonCommand(i, oldp, newp, oldt, newt, oldpen, newpen, oldbr, newbr) ==
    [NoCmd EXCEPT !.kind = "ModifyPolygon", !.polygon_item = i,
                  !.old_polygon = oldp, !.new_polygon = newp,
                  !.old_text = oldt, !.new_text = newt,
                  !.old_pen = oldpen, !.new_pen = newpen,
                  !.old_brush = oldbr, !.new_brush = newbr]

\* ModifyAttributeCommand(polygon_item, old_text, new_text)
ModifyAttributeCommand(i, oldt, newt) ==
    [NoCmd EXCEPT !.kind = "ModifyAttribute", !.polygon_item = i,
                  !.old_text = oldt, !.new_text = newt]

\* ErasePolygonCommand(scene, original_items, new_items, original_data, new_data)
ErasePolygonCommand(origs, news, odata, ndata) ==
    [NoCmd EXCEPT !.kind = "Erase", !.original_items = origs,
                  !.new_items = news, !.original_data = odata,
                  !.new_data = ndata, !.redo_already_applied = TRUE]

\* BatchCommand(commands)
BatchCommand(cmds) == [NoCmd EXCEPT !.kind = "Batch", !.commands = cmds]

\* What undo() and redo() hand back: the items, the scene, the command object
\* (commands update their own references) and the attribute_changed emissions.
Result(its, sc, c) == [items |-> its, scene |-> sc, cmd |-> c, sig |-> 0]

\* undo() that leaves the artifact in the scene.
AddUndoKept(its, sc, c) == Result(its, sc, c)

AddUndo(its, sc, c) == Result(its, removeItem(sc, c.polygon_item), c)

AddRedo(its, sc, c) == Result(its, addItem(sc, c.polygon_item), c)

\* undo() without the "Update reference" assignment.
DeleteUndoSameReference(its, sc, c) ==
    LET restored_item ==
            [polygon |-> c.polygon, text_attribute |-> c.text_attribute,
             pen |-> c.pen, brush |-> c.brush]
        id == Len(its) + 1
    IN  Result(Append(its, restored_item), Append(sc, id), c)

\* Recreates the item from the captured data and re-points the command at it.
DeleteUndo(its, sc, c) ==
    LET restored_item ==
            [polygon |-> c.polygon, text_attribute |-> c.text_attribute,
             pen |-> c.pen, brush |-> c.brush]
        id == Len(its) + 1
    IN  Result(Append(its, restored_item), Append(sc, id),
               [c EXCEPT !.polygon_item = id])

DeleteRedo(its, sc, c) == Result(its, removeItem(sc, c.polygon_item), c)

\* A state change that resets the label, pen and brush that were not supplied.
ApplyPolygonStateReset(its, i, polygon, text, pen, brush) ==
    [its EXCEPT ![i] = [polygon |-> polygon,
                        text_attribute |-> IF text # None THEN text ELSE "",
                        pen |-> IF pen # None THEN pen ELSE DefaultPen,
                        brush |-> IF brush # None THEN brush ELSE DefaultBrush]]

\* setPolygon, then the label, pen and brush that were supplied.
ApplyPolygonState(its, i, polygon, text, pen, brush) ==
    LET a == [its EXCEPT ![i].polygon = polygon]
        b == IF text # None THEN set_text_attribute(a, i, text) ELSE a
        d == IF pen # None THEN [b EXCEPT ![i].pen = pen] ELSE b
    IN  IF brush # None THEN [d EXCEPT ![i].brush = brush] ELSE d

ModifyPolygonUndo(its, sc, c) ==
    Result(ApplyPolygonState(its, c.polygon_item, c.old_polygon, c.old_text,
                             c.old_pen, c.old_brush), sc, c)

ModifyPolygonRedo(its, sc, c) ==
    Result(ApplyPolygonState(its, c.polygon_item, c.new_polygon, c.new_text,
                             c.new_pen, c.new_brush), sc, c)

ModifyAttributeUndo(its, sc, c) ==
    Result(set_text_attribute(its, c.polygon_item, c.old_text), sc, c)

ModifyAttributeRedo(its, sc, c) ==
    Result(set_text_attribute(its, c.polygon_item, c.new_text), sc, c)

\* The stored references that are still in the scene.
StillInScene(sc, refs) == SelectSeq(refs, LAMBDA i : InScene(sc, i))

\* The comparison of the fall-back search: vertex count and label.
MatchesData(its, i, d) ==
    /\ Len(its[i].polygon) = Len(d.polygon)
    /\ its[i].text_attribute = d.text

\* found_indices: for each item found by reference, the first data index it matches.
FoundIndices(its, found, data) ==
    {k \in 1..Len(data) :
        \E j \in 1..Len(found) :
            /\ MatchesData(its, found[j], data[k])
            /\ \A k2 \in 1..(k - 1) : ~MatchesData(its, found[j], data[k2])}

\* "Find remaining items by data": for each data index not found, the first
\* polygon item of scene.items() that matches and is not yet listed.
RECURSIVE FindByData(_, _, _, _, _, _)
FindByData(its, sc, data, foundIdx, k, acc) ==
    IF k > Len(data) THEN acc
    ELSE IF k \in foundIdx THEN FindByData(its, sc, data, foundIdx, k + 1, acc)
    ELSE LET cands == SelectSeq(sceneItems(sc),
                         LAMBDA i : i \notin Range(acc) /\ MatchesData(its, i, data[k]))
         IN  FindByData(its, sc, data, foundIdx, k + 1,
                        IF cands = <<>> THEN acc ELSE Append(acc, cands[1]))

\* items_to_remove of ErasePolygonCommand.undo / redo.
ItemsToRemoveWith(its, sc, byRef, data) ==
    IF Len(byRef) < Len(data)
    THEN FindByData(its, sc, data, FoundIndices(its, byRef, data), 1, byRef)
    ELSE byRef

ItemsToRemove(its, sc, refs, data) ==
    ItemsToRemoveWith(its, sc, StillInScene(sc, refs), data)

RemoveAll(sc, rem) == SelectSeq(sc, LAMBDA x : x \notin Range(rem))

EraseUndo(its, sc, c) ==
    LET rem == ItemsToRemove(its, sc, c.new_items, c.new_data)
        n == Len(c.original_data)
        restored_items == [k \in 1..n |-> Len(its) + k]
    IN  Result(its \o [k \in 1..n |-> ItemFromData(c.original_data[k])],
               RemoveAll(sc, rem) \o restored_items,
               [c EXCEPT !.original_items = restored_items])

\* "Add any missing new items": the new items still in the scene are kept, the
\* others are created from new_data.
AddMissingNewItems(its, sc1, c, existing_new_items) ==
    LET e == Len(existing_new_items)
        n == Len(c.new_data)
        created == IF n > e THEN n - e ELSE 0
    IN  Result(its \o [j \in 1..created |-> ItemFromData(c.new_data[e + j])],
               sc1 \o [j \in 1..created |-> Len(its) + j],
               [c EXCEPT !.new_items =
                             [k \in 1..n |-> IF k <= e THEN existing_new_items[k]
                                             ELSE Len(its) + (k - e)],
                         !.redo_already_applied = FALSE])

\* redo() once the original items are out of the scene (sc1).
EraseRedoAfterRemoval(its, sc1, c) ==
    AddMissingNewItems(its, sc1, c, StillInScene(sc1, c.new_items))

\* redo() without the _redo_already_applied skip.
EraseRedoNoSkip(its, sc, c) ==
    EraseRedoAfterRemoval(
        its, RemoveAll(sc, ItemsToRemove(its, sc, c.original_items, c.original_data)), c)

EraseRedo(its, sc, c) ==
    IF c.redo_already_applied
    THEN Result(its, sc, [c EXCEPT !.redo_already_applied = FALSE])
    ELSE EraseRedoAfterRemoval(
             its, RemoveAll(sc, ItemsToRemove(its, sc, c.original_items, c.original_data)),
             c)

\* undo() / redo() of the command classes other than BatchCommand.
UndoSimple(its, sc, c) ==
    CASE c.kind = "Add" -> AddUndo(its, sc, c)
      [] c.kind = "Delete" -> DeleteUndo(its, sc, c)
      [] c.kind = "ModifyPolygon" -> ModifyPolygonUndo(its, sc, c)
      [] c.kind = "ModifyAttribute" -> ModifyAttributeUndo(its, sc, c)
      [] c.kind = "Erase" -> EraseUndo(its, sc, c)

RedoSimple(its, sc, c) ==
    CASE c.kind = "Add" -> AddRedo(its, sc, c)
      [] c.kind = "Delete" -> DeleteRedo(its, sc, c)
      [] c.kind = "ModifyPolygon" -> ModifyPolygonRedo(its, sc, c)
      [] c.kind = "ModifyAttribute" -> ModifyAttributeRedo(its, sc, c)
      [] c.kind = "Erase" -> EraseRedo(its, sc, c)

\* The loop state after one command of a batch: r is what its undo() or redo()
\* handed back.
AfterCommand(r, cmds, k) ==
    [items |-> r.items, scene |-> r.scene, cmds |-> [cmds EXCEPT ![k] = r.cmd]]

\* cmd.undo() for cmds[k], cmds[k-1], ..., cmds[1].
RECURSIVE UndoDownFrom(_, _)
UndoDownFrom(st, k) ==
    IF k = 0 THEN st
    ELSE UndoDownFrom(AfterCommand(UndoSimple(st.items, st.scene, st.cmds[k]), st.cmds, k),
                      k - 1)

\* cmd.redo() for cmds[k], cmds[k+1], ..., cmds[Len(cmds)].
RECURSIVE RedoUpFrom(_, _)
RedoUpFrom(st, k) ==
    IF k > Len(st.cmds) THEN st
    ELSE RedoUpFrom(AfterCommand(RedoSimple(st.items, st.scene, st.cmds[k]), st.cmds, k),
                    k + 1)

\* cmd.undo() for cmds[k], cmds[k+1], ...: the order BatchCommand.undo avoids.
RECURSIVE UndoUpFrom(_, _)
UndoUpFrom(st, k) ==
    IF k > Len(st.cmds) THEN st
    ELSE UndoUpFrom(AfterCommand(UndoSimple(st.items, st.scene, st.cmds[k]), st.cmds, k),
                    k + 1)

BatchStart(its, sc, c) == [items |-> its, scene |-> sc, cmds |-> c.commands]

BatchResult(st, c) == Result(st.items, st.scene, [c EXCEPT !.commands = st.cmds])

BatchUndoForward(its, sc, c) ==
    BatchResult(UndoUpFrom(BatchStart(its, sc, c), 1), c)

\* for cmd in reversed(self.commands): cmd.undo()
BatchUndo(its, sc, c) ==
    BatchResult(UndoDownFrom(BatchStart(its, sc, c), Len(c.commands)), c)

\* for cmd in self.commands: cmd.redo()
BatchRedo(its, sc, c) ==
    BatchResult(RedoUpFrom(BatchStart(its, sc, c), 1), c)

UndoCmd(its, sc, c) ==
    IF c.kind = "Batch" THEN BatchUndo(its, sc, c) ELSE UndoSimple(its, sc, c)

RedoCmd(its, sc, c) ==
    IF c.kind = "Batch" THEN BatchRedo(its, sc, c) ELSE RedoSimple(its, sc, c)

\* --------------------------------------------------------------- the ledger
NoPending == [cmd |-> NoCmd, before |-> SceneBag(<<>>, <<>>)]

\* ------------------------------------------------------- object references
\* Items are Python objects: one that neither the scene nor a command refers to
\* any more is unreachable and freed.  The ids of the reachable ones are kept
\* dense, in creation order.
SimpleRefs(c) ==
    (IF c.polygon_item = 0 THEN {} ELSE {c.polygon_item})
        \cup Range(c.original_items) \cup Range(c.new_items)

CmdRefs(c) ==
    SimpleRefs(c) \cup UNION {SimpleRefs(c.commands[k]) : k \in 1..Len(c.commands)}

Live(sc, stack, pend) ==
    Range(sc) \cup CmdRefs(pend.cmd)
        \cup UNION {CmdRefs(stack[k]) : k \in 1..Len(stack)}

Rank(live, i) == Cardinality({j \in live : j <= i})

RenameSeq(live, s) == [k \in 1..Len(s) |-> Rank(live, s[k])]

RenameSimple(live, c) ==
    [c EXCEPT !.polygon_item = IF @ = 0 THEN 0 ELSE Rank(live, @),
              !.original_items = RenameSeq(live, @),
              !.new_items = RenameSeq(live, @)]

RenameCmd(live, c) ==
    [RenameSimple(live, c) EXCEPT
        !.commands = [k \in 1..Len(@) |-> RenameSimple(live, @[k])]]

\* The reachable items, in creation order.
KeepLive(live, its) ==
    LET ids == SelectSeq([k \in 1..Len(its) |-> k], LAMBDA i : i \in live)
    IN  [k \in 1..Len(ids) |-> its[ids[k]]]

\* The state after an operation, unreachable items freed.
SettleLive(live, its, sc, stack, pend) ==
    /\ Cardinality(live) <= MaxItems
    /\ items' = KeepLive(live, its)
    /\ scene' = RenameSeq(live, sc)
    /\ undoStack' = [k \in 1..Len(stack) |-> RenameCmd(live, stack[k])]
    /\ pending' = [pend EXCEPT !.cmd = RenameCmd(live, @)]

Settle(its, sc, stack, pend) == SettleLive(Live(sc, stack, pend), its, sc, stack, pend)

\* The stack takes what the command's undo() or redo() handed back (r) as its
\* k-th entry.
Executed(r, stack, k) ==
    /\ Settle(r.items, r.scene,
              IF k > Len(stack) THEN Append(stack, r.cmd) ELSE [stack EXCEPT ![k] = r.cmd],
              NoPending)
    /\ emitted' = r.sig

Op(name, kind) == [name |-> name, kind |-> kind]

\* QUndoStack.push(cmd): drops the undone commands, calls cmd.redo() and
\* appends cmd.  `before` is the scene as it was before the recorded mutation.
PushedWithin(r, before, bound) ==
    /\ pushes < bound
    /\ Executed(r, SubSeq(undoStack, 1, index), index + 1)
    /\ index' = index + 1
    /\ pushes' = pushes + 1
    /\ snaps' = Append(SubSeq(snaps, 1, index),
                       [before |-> before, after |-> SceneBag(r.items, r.scene)])
    /\ op' = Op("push", r.cmd.kind)

Pushed(r, before) == PushedWithin(r, before, MaxPushes)

Push(its, sc, c, before) == Pushed(RedoCmd(its, sc, c), before)

\* A new ArtifactPolygonItem is constructed and pushed with AddPolygonCommand.
PushAdd ==
    /\ pending = NoPending
    /\ \E p \in {Tri, Quad} :
          LET its == Append(items, NewItem(p))
          IN  Push(its, scene, AddPolygonCommand(Len(its)), SceneBag(items, scene))
    /\ UNCHANGED <<ep, er, mw>>

\* DeletePolygonCommand for an item of the scene.
PushDelete ==
    /\ pending = NoPending
    /\ \E i \in Range(scene) :
          Push(items, scene, DeletePolygonCommand(items, i), SceneBag(items, scene))
    /\ UNCHANGED <<ep, er, mw>>

\* ModifyPolygonCommand for an item of the scene: the old polygon is the item's,
\* and the label, pen and brush are either all supplied or all left out.
PushModifyPolygon ==
    /\ pending = NoPending
    /\ \E i \in Range(scene), newp \in {Tri, Quad}, supplied \in BOOLEAN :
          /\ newp # items[i].polygon
          /\ LET it == items[i]
                 c == IF supplied
                      THEN ModifyPolygonCommand(i, it.polygon, newp,
                               it.text_attribute, "B", it.pen, "blue1",
                               it.brush, "blue50")
                      ELSE ModifyPolygonCommand(i, it.polygon, newp,
                               None, None, None, None, None, None)
             IN  Push(items, scene, c, SceneBag(items, scene))
    /\ UNCHANGED <<ep, er, mw>>

\* ModifyAttributeCommand for an item of the scene.
PushModifyAttribute ==
    /\ pending = NoPending
    /\ \E i \in Range(scene), t \in Texts :
          /\ t # items[i].text_attribute
          /\ Push(items, scene,
                  ModifyAttributeCommand(i, items[i].text_attribute, t),
                  SceneBag(items, scene))
    /\ UNCHANGED <<ep, er, mw>>

\* BatchCommand of two commands: two additions, or two label changes of one item.
PushBatch ==
    /\ pending = NoPending
    /\ \/ LET its == items \o <<NewItem(Tri), NewItem(Quad)>>
              n == Len(items)
          IN  Push(its, scene,
                   BatchCommand(<<AddPolygonCommand(n + 1), AddPolygonCommand(n + 2)>>),
                   SceneBag(items, scene))
       \/ \E i \in Range(scene) :
             LET t0 == items[i].text_attribute
                 t1 == IF t0 = "A" THEN "B" ELSE "A"
                 t2 == IF t0 = "" THEN "B" ELSE ""
             IN  Push(items, scene,
                      BatchCommand(<<ModifyAttributeCommand(i, t0, t1),
                                     ModifyAttributeCommand(i, t1, t2)>>),
                      SceneBag(items, scene))
    /\ UNCHANGED <<ep, er, mw>>

\* The polygons left of an erased polygon: none, one, or two (a split).
Pieces(p, k) ==
    CASE k = 0 -> <<>>
      [] k = 1 -> <<IF p = Tri THEN TriB ELSE Tri>>
      [] k = 2 -> <<Tri, TriB>>

\* The items an erase of item o into k pieces creates: the label is kept; one
\* piece keeps the pen and brush, the pieces of a split are recoloured.
PieceItems(its, o, k) ==
    [j \in 1..k |->
        [polygon |-> Pieces(its[o].polygon, k)[j],
         text_attribute |-> its[o].text_attribute,
         pen |-> IF k = 1 THEN its[o].pen ELSE "blue1",
         brush |-> IF k = 1 THEN its[o].brush ELSE "blue50"]]

\* The caller of ErasePolygonCommand: it captures the data of the original and
\* of the new items, takes the original out of the scene, puts the new items in
\* and constructs the command.
PrepareErase ==
    /\ pending = NoPending
    /\ pushes < MaxPushes
    /\ \E o \in Range(scene), k \in 0..2 :
          LET news == PieceItems(items, o, k)
              ids == [j \in 1..k |-> Len(items) + j]
              its == items \o news
          IN  Settle(its, removeItem(scene, o) \o ids, undoStack,
                     [cmd |-> ErasePolygonCommand(<<o>>, ids, <<ItemData(items, o)>>,
                                  [j \in 1..k |-> ItemData(its, ids[j])]),
                      before |-> SceneBag(items, scene)])
    /\ op' = Op("erase", "Erase")
    /\ emitted' = 0
    /\ UNCHANGED <<index, pushes, snaps, ep, er, mw>>

\* undo_stack.push(command) for the erase command just constructed.
PushErase ==
    /\ pending # NoPending
    /\ Push(items, scene, pending.cmd, pending.before)
    /\ UNCHANGED <<ep, er, mw>>

\* QUndoStack.undo(): cmd.undo() of the last applied command.
Undo ==
    /\ pending = NoPending
    /\ index > 0
    /\ Executed(UndoCmd(items, scene, undoStack[index]), undoStack, index)
    /\ index' = index - 1
    /\ op' = Op("undo", undoStack[index].kind)
    /\ UNCHANGED <<pushes, snaps, ep, er, mw>>

\* QUndoStack.redo(): cmd.redo() of the first undone command.
Redo ==
    /\ pending = NoPending
    /\ index < Len(undoStack)
    /\ Executed(RedoCmd(items, scene, undoStack[index + 1]), undoStack, index + 1)
    /\ index' = index + 1
    /\ op' = Op("redo", undoStack[index + 1].kind)
    /\ UNCHANGED <<pushes, snaps, ep, er, mw>>

\* The node editor and the eraser at rest.
\* EditablePolygonItem.__init__: no handles, a zero tangent and show_tangents
\* False per vertex (dict keys are the 0-based node indices), not editing.
\* polygon_modified counts the emissions of the last call.
\* The polygons of the node editor, with <<x, y>> vertices: the square of the
\* edit-mode tests (50 world units per grid unit) and a triangle.
test_polygon == << <<2, 2>>, <<4, 2>>, <<4, 4>>, <<2, 4>> >>
triangle == << <<2, 2>>, <<4, 2>>, <<2, 4>> >>

EditablePolygonItem(polygon) ==
    [polygon |-> polygon,
     node_handles |-> <<>>,
     in_scene |-> TRUE,
     is_batch_updating |-> FALSE,
     pending_old_polygon |-> <<>>,
     polygon_shape_changed |-> <<>>,
     raised |-> None,
     grab |-> [node_index |-> 0 - 1, initial_pos |-> <<>>, polygon |-> <<>>,
               offset |-> <<0, 0>>, has_dragged |-> FALSE],
     events |-> 0,
     tangent_handles |-> {},
     show_tangents |-> [i \in 0..(Len(polygon) - 1) |-> FALSE],
     tangent_data |-> [i \in 0..(Len(polygon) - 1) |-> "zero"],
     is_editing |-> FALSE,
     polygon_modified |-> 0]

IdleEp == EditablePolygonItem(<<>>)
\* The eraser state of ArtifactGraphicsScene.__init__. eraser_item tells whether
\* the attribute holds a path item, path_items counts the eraser path items in
\* the scene, text_items are the polygon items whose label item is in the
\* scene, raised is the exception the last call left with, stroke tells how
\* the points the last stop_erasing worked on lay to the artifacts.
\* The record of a process_manual_erasing call that did not reach an item.
NoErasing(text_items) ==
    [text_items |-> text_items, original |-> 0, result |-> <<>>,
     result_polygons |-> <<>>]

IdleEr ==
    [eraser_path |-> None, eraser_item |-> FALSE, eraser_points |-> <<>>,
     path_items |-> 0, text_items |-> {}, raised |-> None, stroke |-> "none",
     erasing |-> NoErasing({})]

\* The main window and the scene after construction: Normal mode, no stroke of
\* any tool. The scene's __init__ assigns neither current_paint_path nor
\* current_paint_item.
IdleMw ==
    [current_mode |-> "NORMAL",
     current_paint_item |-> "unset", current_paint_path |-> <<>>, paint_items |-> 0,
     freehand_points |-> <<>>, freehand_path |-> None, freehand_item |-> FALSE,
     freehand_items |-> 0,
     selectable |-> {}, editable_polygons |-> {},
     left_button |-> FALSE, events |-> 0, position |-> <<>>, raised |-> None,
     polygon_created |-> 0,
     selected |-> {}, table_selected |-> {}, handler_runs |-> 0,
     progress_bar |-> [value |-> 0, visible |-> FALSE],
     segment_worker |-> [isRunning |-> FALSE, prompt |-> None, emitted |-> 0],
     signals |-> <<>>, requests |-> 0, request_items |-> 0, request_mode |-> None,
     outcome |-> None,
     process |-> "running",
     checked |-> {}, scene_current_mode |-> "NORMAL",
     service |-> [points_prompt |-> <<>>, bounding_box |-> <<>>,
                  painting_prompt |-> <<>>, isRunning |-> FALSE, pc |-> "idle",
                  foreground_points |-> <<>>, box |-> <<>>, painting |-> <<>>,
                  dispatched |-> <<>>, completions |-> <<>>, raised |-> 0],
     sampling |-> [polygon_mask_array |-> {}, eraser_mask_array |-> {},
                   pc |-> "returned", component |-> 0, foreground_points |-> 0,
                   background_points |-> 0, emitted |-> 0, raised |-> FALSE]]

\* A scene of two artifacts, an empty undo stack.
InitLedger ==
    /\ items = <<[polygon |-> Quad, text_attribute |-> "A", pen |-> "red3",
                  brush |-> "red50"],
                 [polygon |-> Tri, text_attribute |-> "A", pen |-> DefaultPen,
                  brush |-> DefaultBrush]>>
    /\ scene = <<1, 2>>
    /\ undoStack = <<>>
    /\ index = 0
    /\ pending = NoPending
    /\ op = Op("init", "None")
    /\ emitted = 0
    /\ pushes = 0
    /\ snaps = <<>>
    /\ ep = IdleEp
    /\ er = IdleEr
    /\ mw = IdleMw

NextLedger ==
    \/ PushAdd
    \/ PushDelete
    \/ PushModifyPolygon
    \/ PushModifyAttribute
    \/ PushBatch
    \/ PrepareErase
    \/ PushErase
    \/ Undo
    \/ Redo

SpecLedger == InitLedger /\ [][NextLedger]_vars

\* ------------------------------------------------------- claims: the ledger
\* The artifacts of the scene, by value.
Artifacts == SceneBag(items, scene)

\* The entry the last undo, redo or push acted on.
LastEntry == IF op.name = "undo" THEN undoStack[index + 1] ELSE undoStack[index]

IsApply == op.name \in {"push", "redo"}

\* C2: undoing every entry of the stack, last first, returns the scene to the
\* artifacts it held before the first entry's mutation, and redoing every entry
\* then returns it to the artifacts it held after the last one.
C2_UndoAllRedoAll ==
    /\ (op.name = "undo" /\ index = 0) => Artifacts = snaps[1].before
    /\ (op.name = "redo" /\ index = Len(undoStack)) => Artifacts = snaps[index].after

\* C4: pushing a DeletePolygonCommand takes the artifact out of the scene; undo
\* puts back exactly one artifact with the recorded polygon, label, pen and
\* brush; the redo that follows takes that restored artifact out again.
C4_DeleteRoundTrip ==
    [][/\ (op' = Op("undo", "Delete")) =>
             LET c == undoStack'[index' + 1]
                 v == [polygon |-> c.polygon, text_attribute |-> c.text_attribute,
                       pen |-> c.pen, brush |-> c.brush]
             IN  /\ SceneBag(items', scene') = Artifacts (+) SetToBag({v})
                 /\ InScene(scene', c.polygon_item)
                 /\ items'[c.polygon_item] = v
       /\ (op' = Op("push", "Delete")
              \/ (op' = Op("redo", "Delete") /\ op = Op("undo", "Delete"))) =>
             LET c == undoStack'[index']
                 v == [polygon |-> c.polygon, text_attribute |-> c.text_attribute,
                       pen |-> c.pen, brush |-> c.brush]
             IN  /\ SceneBag(items', scene') (+) SetToBag({v}) = Artifacts
                 /\ ~InScene(scene', c.polygon_item)]_vars

\* C4 witness: a Delete entry undone, the artifact back in the scene once.
C4_Witness ==
    /\ op = Op("undo", "Delete")
    /\ pushes = 1
    /\ Len(items) = 2
    /\ Len(scene) = 2
    /\ undoStack[1].polygon_item = 2
    /\ scene[2] = 2

\* C5: after an AddPolygonCommand is pushed or redone its artifact is in the
\* scene, after it is undone the artifact is not, however often the two
\* alternate.
C5_AddApplied ==
    /\ (op.kind = "Add" /\ IsApply) => InScene(scene, LastEntry.polygon_item)
    /\ (op.kind = "Add" /\ op.name = "undo") => ~InScene(scene, LastEntry.polygon_item)

C5_Witness == op = Op("redo", "Add") /\ InScene(scene, LastEntry.polygon_item)

\* C6 as stated: pushing an entry never changes the artifacts of the scene.
C6_PushNoMutation == [][op'.name = "push" => SceneBag(items', scene') = Artifacts]_vars

\* C6 amended: pushing an ErasePolygonCommand leaves the artifacts unchanged;
\* pushing any other kind runs the entry's redo: Add puts the artifact into the
\* scene, Delete takes it out, the Modify kinds set the after-values.
C6_PushRunsRedo ==
    [][op'.name = "push" =>
          LET c == undoStack'[index']
          IN  CASE c.kind = "Erase" -> SceneBag(items', scene') = Artifacts
                [] c.kind = "Add" ->
                      SceneBag(items', scene')
                          = Artifacts (+) SetToBag({items'[c.polygon_item]})
                [] c.kind = "Delete" ->
                      SceneBag(items', scene')
                              (+) SetToBag({[polygon |-> c.polygon,
                                             text_attribute |-> c.text_attribute,
                                             pen |-> c.pen, brush |-> c.brush]})
                          = Artifacts
                [] c.kind = "ModifyPolygon" ->
                      items'[c.polygon_item].polygon = c.new_polygon
                [] c.kind = "ModifyAttribute" ->
                      items'[c.polygon_item].text_attribute = c.new_text
                [] OTHER -> TRUE]_vars

\* C6 witness: an erase command pushed after the erase changed the scene.
C6_Witness ==
    /\ op = Op("push", "Erase")
    /\ snaps[index].before # snaps[index].after
    /\ Artifacts = snaps[index].after

\* C7: undo of a ModifyPolygonCommand / ModifyAttributeCommand sets the target's
\* polygon / label to the entry's before-value and redo to its after-value, the
\* entry being the one at the stack's index (last in, first out); a label, pen
\* or brush the ModifyPolygonCommand was not given is left as it is.
C7_ModifyValues ==
    [][LET u == op'.name = "undo"
           c == IF u THEN undoStack'[index' + 1] ELSE undoStack'[index']
           it == items'[c.polygon_item]
           Was == IF u THEN {items[undoStack[index].polygon_item]} ELSE
                  IF op'.name = "redo" THEN {items[undoStack[index + 1].polygon_item]}
                  ELSE {items[scene[k]] : k \in 1..Len(scene)}
       IN  /\ (op'.kind = "ModifyAttribute" /\ op'.name \in {"push", "undo", "redo"}) =>
                 it.text_attribute = IF u THEN c.old_text ELSE c.new_text
           /\ (op'.kind = "ModifyPolygon" /\ op'.name \in {"push", "undo", "redo"}) =>
                 LET text == IF u THEN c.old_text ELSE c.new_text
                     pen == IF u THEN c.old_pen ELSE c.new_pen
                     brush == IF u THEN c.old_brush ELSE c.new_brush
                 IN  /\ it.polygon = IF u THEN c.old_polygon ELSE c.new_polygon
                     /\ \E was \in Was :
                           /\ it.text_attribute
                                  = IF text # None THEN text ELSE was.text_attribute
                           /\ it.pen = IF pen # None THEN pen ELSE was.pen
                           /\ it.brush = IF brush # None THEN brush ELSE was.brush]_vars

\* C7 witness: two Modify entries undone one after the other, the first one a
\* ModifyPolygonCommand that was given no label, pen or brush.
C7_Witness ==
    /\ op.name = "undo"
    /\ index = 0
    /\ Len(undoStack) = 2
    /\ undoStack[1].kind = "ModifyPolygon"
    /\ undoStack[1].old_text = None
    /\ undoStack[2].kind = "ModifyAttribute"
    /\ undoStack[2].polygon_item = undoStack[1].polygon_item
    /\ items[undoStack[1].polygon_item].polygon = undoStack[1].old_polygon
    /\ items[undoStack[1].polygon_item].text_attribute = undoStack[2].old_text

\* C8: every push, undo and redo of a ModifyAttributeCommand emits the scene's
\* attribute_changed at least once.
C8_AttributeSignal ==
    (op.kind = "ModifyAttribute" /\ op.name \in {"push", "undo", "redo"}) => emitted > 0

\* The sub-commands of a batch that are the first (last) to target their item.
FirstOnItem(cmds, k) ==
    \A k2 \in 1..(k - 1) : cmds[k2].polygon_item # cmds[k].polygon_item
LastOnItem(cmds, k) ==
    \A k2 \in (k + 1)..Len(cmds) : cmds[k2].polygon_item # cmds[k].polygon_item

\* C9: after a BatchCommand is undone none of its sub-commands' effects remain
\* (added artifacts are out of the scene, a label is what it was before the first
\* change), after it is pushed or redone all of them are present; with the batch
\* alone on the stack the scene is as before, resp. after, the whole batch.
C9_BatchOrder ==
    /\ (op = Op("undo", "Batch")) =>
          LET cmds == LastEntry.commands
          IN  /\ \A k \in 1..Len(cmds) :
                    /\ cmds[k].kind = "Add" => ~InScene(scene, cmds[k].polygon_item)
                    /\ (cmds[k].kind = "ModifyAttribute" /\ FirstOnItem(cmds, k)) =>
                          items[cmds[k].polygon_item].text_attribute = cmds[k].old_text
              /\ pushes = 1 => Artifacts = snaps[1].before
    /\ (op.kind = "Batch" /\ IsApply) =>
          LET cmds == LastEntry.commands
          IN  /\ \A k \in 1..Len(cmds) :
                    /\ cmds[k].kind = "Add" => InScene(scene, cmds[k].polygon_item)
                    /\ (cmds[k].kind = "ModifyAttribute" /\ LastOnItem(cmds, k)) =>
                          items[cmds[k].polygon_item].text_attribute = cmds[k].new_text
              /\ pushes = 1 => Artifacts = snaps[1].after

\* C9 witness: a batch of two label changes of one item, undone.
C9_Witness ==
    /\ op = Op("undo", "Batch")
    /\ LastEntry.commands[1].kind = "ModifyAttribute"
    /\ LastEntry.commands[2].old_text # LastEntry.commands[1].old_text
    /\ items[LastEntry.commands[1].polygon_item].text_attribute
           = LastEntry.commands[1].old_text

\* ---------------------------------------------------------- the node editor
\* node_handles is the list of NodeHandle objects, in list order;
\* tangent_handles is the set of node indices that have tangent handles.
remove_all_handles(e) == [e EXCEPT !.tangent_handles = {}, !.node_handles = <<>>]

\* NodeHandle(node_index, parent_item): not selected, no drag in progress
\* (drag_start_pos None is the empty tuple), placed on its node.
NodeHandle(node_index, parent_item) ==
    [node_index |-> node_index, is_selected |-> FALSE, drag_start_pos |-> <<>>,
     pos |-> parent_item.polygon[node_index + 1]]

\* create_node_handles without remove_all_handles: the new handles are appended
\* to the handles that exist.
create_node_handles_kept(e) ==
    IF Len(e.polygon) < 3 \/ ~e.in_scene THEN e
    ELSE [e EXCEPT !.node_handles =
             @ \o [k \in 1..Len(e.polygon) |-> NodeHandle(k - 1, e)]]

create_node_handles(e) ==
    LET e1 == remove_all_handles(e)
    IN  IF Len(e1.polygon) < 3 \/ ~e1.in_scene THEN e1
        ELSE [e1 EXCEPT !.node_handles =
                 [k \in 1..Len(e1.polygon) |-> NodeHandle(k - 1, e1)]]

set_editing_mode(e, enabled) ==
    LET e1 == [e EXCEPT !.is_editing = enabled, !.polygon_modified = 0]
    IN  IF enabled THEN create_node_handles(e1) ELSE remove_all_handles(e1)

get_selected_nodes(e) ==
    {i \in 0..(Len(e.node_handles) - 1) : e.node_handles[i + 1].is_selected}

\* select_node that never deselects the other nodes.
select_node_keeps(e, node_index, add_to_selection) ==
    IF 0 <= node_index /\ node_index < Len(e.node_handles)
    THEN [e EXCEPT !.node_handles[node_index + 1].is_selected = TRUE,
                   !.polygon_modified = 1]
    ELSE [e EXCEPT !.polygon_modified = 0]

select_node(e, node_index, add_to_selection) ==
    LET h0 == IF add_to_selection THEN e.node_handles
              ELSE [k \in 1..Len(e.node_handles) |->
                       [e.node_handles[k] EXCEPT !.is_selected = FALSE]]
    IN  IF 0 <= node_index /\ node_index < Len(h0)
        THEN [e EXCEPT !.node_handles =
                           [h0 EXCEPT ![node_index + 1].is_selected = TRUE],
                       !.polygon_modified = 1]
        ELSE [e EXCEPT !.node_handles = h0, !.polygon_modified = 0]

deselect_all_nodes(e) ==
    [e EXCEPT !.node_handles = [k \in 1..Len(e.node_handles) |->
                                   [e.node_handles[k] EXCEPT !.is_selected = FALSE]],
              !.polygon_modified = IF get_selected_nodes(e) # {} THEN 1 ELSE 0]

toggle_tangents_for_node(e, node_index) ==
    IF node_index \notin DOMAIN e.show_tangents THEN e
    ELSE LET e1 == [e EXCEPT !.show_tangents[node_index] = ~e.show_tangents[node_index]]
         IN  IF e1.show_tangents[node_index]
             THEN [e1 EXCEPT !.tangent_handles = @ \cup {node_index}]
             ELSE e1

\* The selected indices, largest first.
RECURSIVE SortedReverse(_)
SortedReverse(S) ==
    IF S = {} THEN <<>>
    ELSE LET m == CHOOSE x \in S : \A y \in S : y <= x
         IN  <<m>> \o SortedReverse(S \ {m})

\* polygon.remove(index) for each index of the list in turn.
RECURSIVE RemoveNodes(_, _, _)
RemoveNodes(polygon, selected_indices, k) ==
    IF k > Len(selected_indices) THEN polygon
    ELSE LET deleted == selected_indices[k]
         IN  RemoveNodes([j \in 1..(Len(polygon) - 1) |->
                             IF j <= deleted THEN polygon[j] ELSE polygon[j + 1]],
                         selected_indices, k + 1)

\* "Adjust index if nodes were removed before this one": the loop over the
\* deleted indices in the list's order.
RECURSIVE OldIndex(_, _, _)
OldIndex(old_i, selected_indices, k) ==
    IF k > Len(selected_indices) THEN old_i
    ELSE OldIndex(IF selected_indices[k] <= old_i THEN old_i + 1 ELSE old_i,
                  selected_indices, k + 1)

\* "Recreate visible tangents": toggle_tangents_for_node for each True entry.
RECURSIVE RecreateVisibleTangents(_, _)
RecreateVisibleTangents(e, todo) ==
    IF todo = {} THEN e
    ELSE LET node_index == CHOOSE x \in todo : \A y \in todo : x <= y
         IN  RecreateVisibleTangents(
                 IF e.show_tangents[node_index]
                 THEN toggle_tangents_for_node(e, node_index) ELSE e,
                 todo \ {node_index})

\* delete_selected_nodes without the "less than 3 points" return.
delete_selected_nodes_unguarded(e) ==
    LET selected_indices == SortedReverse(get_selected_nodes(e))
        polygon == RemoveNodes(e.polygon, selected_indices, 1)
    IN  IF Len(selected_indices) = 0 THEN [e EXCEPT !.polygon_modified = 0]
        ELSE [create_node_handles([e EXCEPT !.polygon = polygon])
                 EXCEPT !.polygon_modified = 1]

delete_selected_nodes(e) ==
    LET selected_indices == SortedReverse(get_selected_nodes(e))
        polygon == RemoveNodes(e.polygon, selected_indices, 1)
        kept == {i \in 0..(Len(polygon) - 1) :
                    OldIndex(i, selected_indices, 1) \in DOMAIN e.show_tangents}
        keptData == {i \in 0..(Len(polygon) - 1) :
                        OldIndex(i, selected_indices, 1) \in DOMAIN e.tangent_data}
        e1 == create_node_handles([e EXCEPT !.polygon = polygon])
        e2 == [e1 EXCEPT
                  !.tangent_data =
                      [i \in keptData |-> e.tangent_data[OldIndex(i, selected_indices, 1)]],
                  !.show_tangents =
                      [i \in kept |-> e.show_tangents[OldIndex(i, selected_indices, 1)]]]
        e3 == RecreateVisibleTangents(create_node_handles(remove_all_handles(e2)), kept)
    IN  IF Len(selected_indices) = 0 THEN [e EXCEPT !.polygon_modified = 0]
        ELSE IF Len(e.polygon) - Len(selected_indices) < 3
             THEN [e EXCEPT !.polygon_modified = 0]
             ELSE [e3 EXCEPT !.polygon_modified = 1]

\* The midpoint QPointF((p1.x() + p2.x()) / 2, (p1.y() + p2.y()) / 2). Vertices
\* are <<x, y>> on the integer grid; HalfExact tells that the halves are on the
\* grid too, which is where the integer division equals the float division.
HalfExact(p1, p2) == (p1[1] + p2[1]) % 2 = 0 /\ (p1[2] + p2[2]) % 2 = 0

midpoint(p1, p2) == <<(p1[1] + p2[1]) \div 2, (p1[2] + p2[2]) \div 2>>

\* add_node_at_segment inserting p1 instead of the midpoint.
add_node_at_segment_at_p1(e, segment_index) ==
    IF segment_index < 0 \/ segment_index >= Len(e.polygon)
    THEN [e EXCEPT !.polygon_modified = 0]
    ELSE LET new_node_index == segment_index + 1
             polygon == [j \in 1..(Len(e.polygon) + 1) |->
                            IF j <= new_node_index THEN e.polygon[j]
                            ELSE e.polygon[j - 1]]
             e1 == create_node_handles([e EXCEPT !.polygon = polygon])
             e3 == select_node(e1, new_node_index, FALSE)
         IN  [e3 EXCEPT !.polygon_modified = e3.polygon_modified + 1]

add_node_at_segment(e, segment_index) ==
    IF segment_index < 0 \/ segment_index >= Len(e.polygon)
    THEN [e EXCEPT !.polygon_modified = 0]
    ELSE LET new_node_index == segment_index + 1
             p1 == e.polygon[segment_index + 1]
             p2 == e.polygon[((segment_index + 1) % Len(e.polygon)) + 1]
             polygon == [j \in 1..(Len(e.polygon) + 1) |->
                            IF j <= new_node_index THEN e.polygon[j]
                            ELSE IF j = new_node_index + 1 THEN midpoint(p1, p2)
                            ELSE e.polygon[j - 1]]
             e1 == create_node_handles([e EXCEPT !.polygon = polygon])
             e2 == [e1 EXCEPT
                       !.tangent_data = [i \in DOMAIN @ \cup {new_node_index} |->
                                            IF i = new_node_index THEN "zero" ELSE @[i]],
                       !.show_tangents = [i \in DOMAIN @ \cup {new_node_index} |->
                                            IF i = new_node_index THEN FALSE ELSE @[i]]]
             e3 == select_node(e2, new_node_index, FALSE)
         IN  [e3 EXCEPT !.polygon_modified = e3.polygon_modified + 1]

\* --- the calls on the polygon being edited
NodeCall(name, e) ==
    /\ ep' = e
    /\ op' = Op(name, "Node")
    /\ UNCHANGED <<items, scene, undoStack, index, pending, emitted, pushes, snaps, er, mw>>

SetEditingMode == \E enabled \in BOOLEAN :
    /\ enabled # ep.is_editing
    /\ NodeCall("set_editing_mode", set_editing_mode(ep, enabled))

SelectNode == \E node_index \in 0..(MaxNodes - 1), add_to_selection \in BOOLEAN :
    /\ ep.is_editing
    /\ NodeCall("select_node", select_node(ep, node_index, add_to_selection))

DeselectAllNodes ==
    /\ ep.is_editing
    /\ NodeCall("deselect_all_nodes", deselect_all_nodes(ep))

\* Showing the tangents of the first node while nothing is selected, which
\* keeps the state space small; delete_selected_nodes moves them to other nodes.
ToggleTangentsForNode ==
    /\ ep.is_editing
    /\ get_selected_nodes(ep) = {}
    /\ 0 \in DOMAIN ep.show_tangents
    /\ ~ep.show_tangents[0]
    /\ NodeCall("toggle_tangents_for_node", toggle_tangents_for_node(ep, 0))

DeleteSelectedNodes ==
    /\ ep.is_editing
    /\ NodeCall("delete_selected_nodes", delete_selected_nodes(ep))

AddNodeAtSegment == \E segment_index \in 0..(MaxNodes - 1) :
    /\ ep.is_editing
    /\ Len(ep.polygon) < MaxNodes
    /\ segment_index < Len(ep.polygon) =>
           HalfExact(ep.polygon[segment_index + 1],
                     ep.polygon[((segment_index + 1) % Len(ep.polygon)) + 1])
    /\ NodeCall("add_node_at_segment", add_node_at_segment(ep, segment_index))

InitNode ==
    /\ items = <<>>
    /\ scene = <<>>
    /\ undoStack = <<>>
    /\ index = 0
    /\ pending = NoPending
    /\ op = Op("init", "None")
    /\ emitted = 0
    /\ pushes = 0
    /\ snaps = <<>>
    /\ ep \in {EditablePolygonItem(p) : p \in {triangle, test_polygon}}
    /\ er = IdleEr
    /\ mw = IdleMw

NextNode ==
    \/ SetEditingMode
    \/ SelectNode
    \/ DeselectAllNodes
    \/ ToggleTangentsForNode
    \/ DeleteSelectedNodes
    \/ AddNodeAtSegment

SpecNode == InitNode /\ [][NextNode]_vars

\* C1: while a polygon is edited its vertex count never falls below 3; a
\* delete_selected_nodes call that would leave fewer than 3 vertices returns
\* normally with the polygon, the handles, the selection and the tangent
\* bookkeeping as they were, and emits nothing.
C1_AtLeastThreeNodes ==
    [][op'.kind = "Node" =>
          /\ Len(ep'.polygon) >= 3
          /\ (/\ op'.name = "delete_selected_nodes"
              /\ Len(ep.polygon) - Cardinality(get_selected_nodes(ep)) < 3) =>
                 ep' = [ep EXCEPT !.polygon_modified = 0]]_vars

\* C1 witness: a delete was asked for with two of four nodes selected.
C1_Witness ==
    /\ op = Op("delete_selected_nodes", "Node")
    /\ Len(ep.polygon) = 4
    /\ Cardinality(get_selected_nodes(ep)) = 2

\* ------------------------------------------------- moving and dragging nodes
\* Largest number of move_selected_nodes calls and motion events of a run.
MaxDragEvents == 2
\* Largest coordinate a vertex is moved to.
GridMax == 6

\* QPointF addition and subtraction.
Plus(p, d) == <<p[1] + d[1], p[2] + d[2]>>
Minus(p, q) == <<p[1] - q[1], p[2] - q[2]>>

\* The arrow-key and cursor displacements, in grid units.
Deltas == { <<1, 0>>, <<1, 1>> }

\* The selected indices, smallest first: the order of get_selected_nodes.
RECURSIVE Sorted(_)
Sorted(S) ==
    IF S = {} THEN <<>>
    ELSE LET m == CHOOSE x \in S : \A y \in S : x <= y
         IN  <<m>> \o Sorted(S \ {m})

\* move_selected_nodes moving every node, selected or not.
move_selected_nodes_all(e, delta) ==
    IF get_selected_nodes(e) = {} THEN [e EXCEPT !.polygon_modified = 0]
    ELSE LET polygon == [j \in 1..Len(e.polygon) |-> Plus(e.polygon[j], delta)]
         IN  [e EXCEPT !.polygon = polygon,
                       !.node_handles = [k \in 1..Len(e.node_handles) |->
                           [e.node_handles[k] EXCEPT !.drag_start_pos = <<>>,
                                                     !.pos = polygon[k]]],
                       !.polygon_modified = 1]

\* move_selected_nodes: the handles' geometry notifications are off while
\* their positions are set, so no itemChange runs.
move_selected_nodes(e, delta) ==
    LET selected_indices == get_selected_nodes(e)
        polygon == [j \in 1..Len(e.polygon) |->
                       IF (j - 1) \in selected_indices
                       THEN Plus(e.polygon[j], delta) ELSE e.polygon[j]]
    IN  IF selected_indices = {} THEN [e EXCEPT !.polygon_modified = 0]
        ELSE [e EXCEPT !.polygon = polygon,
                       !.node_handles = [k \in 1..Len(e.node_handles) |->
                           IF k <= Len(polygon)
                           THEN [e.node_handles[k] EXCEPT !.drag_start_pos = <<>>,
                                                          !.pos = polygon[k]]
                           ELSE e.node_handles[k]],
                       !.polygon_modified = 1]

update_node_position(e, node_index, new_pos) ==
    IF 0 <= node_index /\ node_index < Len(e.polygon)
    THEN [e EXCEPT !.polygon[node_index + 1] = new_pos]
    ELSE e

\* NodeHandle.itemChange(ItemPositionHasChanged) of the handle at list position
\* node_index: Qt sends it after every change of the handle's position.
ItemPositionHasChanged(e, node_index) ==
    LET e1 == [e EXCEPT !.node_handles[node_index + 1].drag_start_pos = <<>>,
                        !.polygon_modified = @ + 1]
    IN  IF e.pending_old_polygon # <<>>
        THEN [e1 EXCEPT !.pending_old_polygon = <<>>,
                        !.polygon_shape_changed =
                            Append(@, [old_polygon |-> e.pending_old_polygon,
                                       new_polygon |-> e.polygon])]
        ELSE e1

\* handle.setPos(new_pos) while is_batch_updating: ItemPositionChange returns
\* the value untouched, Qt moves the handle (unless it is there already) and
\* sends ItemPositionHasChanged.
RECURSIVE SetPosOfSelected(_, _, _)
SetPosOfSelected(e, selected_indices, k) ==
    IF k > Len(selected_indices) THEN e
    ELSE LET node_index == selected_indices[k]
             new_pos == e.polygon[node_index + 1]
         IN  SetPosOfSelected(
                 IF e.node_handles[node_index + 1].pos = new_pos THEN e
                 ELSE ItemPositionHasChanged(
                          [e EXCEPT !.node_handles[node_index + 1].pos = new_pos], node_index),
                 selected_indices, k + 1)

\* move_selected_nodes_by_delta: after the handles are moved the method reads
\* old_polygon, a name it never assigns; the NameError leaves through the
\* finally clause.
move_selected_nodes_by_delta(e, delta, dragged_node_index) ==
    LET selected_indices == get_selected_nodes(e)
        starts == [k \in 1..Len(e.node_handles) |->
                      IF (k - 1) \in selected_indices
                         /\ e.node_handles[k].drag_start_pos = <<>>
                      THEN [e.node_handles[k] EXCEPT !.drag_start_pos = e.polygon[k]]
                      ELSE e.node_handles[k]]
        polygon == [j \in 1..Len(e.polygon) |->
                       IF (j - 1) \in selected_indices
                       THEN Plus(starts[j].drag_start_pos, delta) ELSE e.polygon[j]]
        e1 == SetPosOfSelected([e EXCEPT !.is_batch_updating = TRUE,
                                         !.node_handles = starts,
                                         !.polygon = polygon],
                               Sorted(selected_indices), 1)
    IN  [e1 EXCEPT !.is_batch_updating = FALSE, !.raised = "NameError"]

\* handle.setPos(value) by Qt's item dragging, outside a batch update:
\* itemChange(ItemPositionChange), the move, itemChange(ItemPositionHasChanged).
itemChange(e, node_index, value) ==
    LET handle == e.node_handles[node_index + 1]
        first == handle.drag_start_pos = <<>> /\ node_index < Len(e.polygon)
        e1 == IF first
              THEN [e EXCEPT !.node_handles[node_index + 1].drag_start_pos =
                                 e.polygon[node_index + 1],
                             !.pending_old_polygon =
                                 IF @ = <<>> THEN e.polygon ELSE @]
              ELSE e
        delta == Minus(value, e1.node_handles[node_index + 1].drag_start_pos)
    IN  IF handle.pos = value THEN e
        ELSE IF e1.node_handles[node_index + 1].drag_start_pos # <<>>
                /\ handle.is_selected
                /\ Cardinality(get_selected_nodes(e1)) > 1
        THEN move_selected_nodes_by_delta(e1, delta, node_index)
        ELSE ItemPositionHasChanged(
                 [update_node_position(e1, node_index, value)
                     EXCEPT !.node_handles[node_index + 1].pos = value],
                 node_index)

\* NodeHandle.mousePressEvent (left button): a selected handle pressed without
\* Ctrl keeps the selection, any other press selects. Qt notes the handle's
\* position for the drag; the polygon at press time is kept for the record.
mousePressEvent(e, node_index, ctrl_pressed) ==
    LET e1 == IF e.node_handles[node_index + 1].is_selected /\ ~ctrl_pressed
              THEN [e EXCEPT !.polygon_modified = 0]
              ELSE select_node(e, node_index, ctrl_pressed)
    IN  [e1 EXCEPT !.grab = [node_index |-> node_index,
                             initial_pos |-> e.node_handles[node_index + 1].pos,
                             polygon |-> e.polygon,
                             offset |-> <<0, 0>>,
                             has_dragged |-> FALSE],
                   !.polygon_shape_changed = <<>>]

\* NodeHandle.mouseMoveEvent: the cursor is at `offset` from where it was
\* pressed (more than 3 pixels), and Qt's item dragging moves the handle to
\* its position at press time plus that offset.
mouseMoveEvent(e, offset) ==
    LET e1 == [e EXCEPT !.grab.has_dragged = TRUE, !.grab.offset = offset,
                        !.polygon_modified = 0, !.events = @ + 1]
    IN  itemChange(e1, e.grab.node_index, Plus(e.grab.initial_pos, offset))

\* NodeHandle.mouseReleaseEvent (left button): a click without Ctrl on a
\* selected node makes it the only selected one.
mouseReleaseEvent(e, ctrl_pressed) ==
    LET node_index == e.grab.node_index
        e1 == IF /\ e.node_handles[node_index + 1].is_selected
                 /\ ~ctrl_pressed
                 /\ ~e.grab.has_dragged
              THEN select_node(e, node_index, FALSE)
              ELSE [e EXCEPT !.polygon_modified = 0]
    IN  [e1 EXCEPT !.grab = EditablePolygonItem(<<>>).grab]

\* Every vertex of the polygon is on the grid of the model.
OnGrid(polygon) ==
    \A j \in 1..Len(polygon) :
        /\ polygon[j][1] \in 0..GridMax
        /\ polygon[j][2] \in 0..GridMax

Grabbed == ep.grab.node_index >= 0

DragCall(name, e) ==
    /\ OnGrid(e.polygon)
    /\ ep' = e
    /\ op' = Op(name, "Drag")
    /\ UNCHANGED <<items, scene, undoStack, index, pending, emitted, pushes, snaps, er, mw>>

MoveSelectedNodes == \E delta \in Deltas :
    /\ ~Grabbed /\ ep.raised = None
    /\ ep.events < MaxDragEvents
    /\ DragCall("move_selected_nodes",
                [move_selected_nodes(ep, delta) EXCEPT !.events = @ + 1])

HandlePress == \E node_index \in 0..3, ctrl_pressed \in BOOLEAN :
    /\ ~Grabbed /\ ep.raised = None
    /\ DragCall("mousePressEvent", mousePressEvent(ep, node_index, ctrl_pressed))

HandleMove == \E offset \in Deltas :
    /\ Grabbed /\ ep.raised = None
    /\ ep.events < MaxDragEvents
    /\ DragCall("mouseMoveEvent", mouseMoveEvent(ep, offset))

HandleRelease == \E ctrl_pressed \in BOOLEAN :
    /\ Grabbed /\ ep.raised = None
    /\ DragCall("mouseReleaseEvent", mouseReleaseEvent(ep, ctrl_pressed))

InitDrag ==
    /\ items = <<>>
    /\ scene = <<>>
    /\ undoStack = <<>>
    /\ index = 0
    /\ pending = NoPending
    /\ op = Op("init", "None")
    /\ emitted = 0
    /\ pushes = 0
    /\ snaps = <<>>
    /\ ep = set_editing_mode(EditablePolygonItem(test_polygon), TRUE)
    /\ er = IdleEr
    /\ mw = IdleMw

NextDrag ==
    \/ MoveSelectedNodes
    \/ HandlePress
    \/ HandleMove
    \/ HandleRelease

SpecDrag == InitDrag /\ [][NextDrag]_vars

C22_SelectNode ==
    \A i \in 0..(Len(ep.node_handles) - 1), add_to_selection \in BOOLEAN :
        LET e1 == select_node(ep, i, add_to_selection)
        IN  /\ get_selected_nodes(e1)
                   = IF add_to_selection THEN get_selected_nodes(ep) \cup {i} ELSE {i}
            /\ get_selected_nodes(select_node(e1, i, add_to_selection))
                   = get_selected_nodes(e1)
            /\ e1.polygon = ep.polygon

\* C22 witness: select_node was called and two nodes are selected, so that a
\* non-additive call has a selection to replace.
C22_Witness ==
    /\ op = Op("select_node", "Node")
    /\ Cardinality(get_selected_nodes(ep)) = 2

C24_MoveSelectedNodes ==
    [][op'.name = "move_selected_nodes" =>
          LET selected == get_selected_nodes(ep)
          IN  /\ \E delta \in Deltas :
                     ep'.polygon = [j \in 1..Len(ep.polygon) |->
                                       IF (j - 1) \in selected
                                       THEN Plus(ep.polygon[j], delta)
                                       ELSE ep.polygon[j]]
              /\ get_selected_nodes(ep') = selected
              /\ Len(ep'.node_handles) = Len(ep.node_handles)
              /\ selected = {} =>
                     /\ ep'.polygon = ep.polygon
                     /\ ep'.node_handles = ep.node_handles]_vars

\* C24 witness: two of the four nodes were selected and moved, the other two
\* are where the test polygon has them.
C24_Witness ==
    /\ op = Op("move_selected_nodes", "Drag")
    /\ get_selected_nodes(ep) = {0, 1}
    /\ ep.polygon[1] # test_polygon[1]
    /\ ep.polygon[3] = test_polygon[3]

\* C25: when a selected handle is dragged while other nodes are selected too,
\* after each motion event every selected vertex is at its position at press
\* time plus the cursor's offset since the press, the unselected vertices are
\* where they were, and the step ends without an error.
C25_DragMovesSelection ==
    [][(/\ op'.name = "mouseMoveEvent"
        /\ ep.node_handles[ep.grab.node_index + 1].is_selected
        /\ Cardinality(get_selected_nodes(ep)) > 1) =>
          /\ ep'.raised = None
          /\ ep'.polygon = [j \in 1..Len(ep.polygon) |->
                                IF (j - 1) \in get_selected_nodes(ep)
                                THEN Plus(ep.grab.polygon[j], ep'.grab.offset)
                                ELSE ep.polygon[j]]]_vars

\* C26: a node drag emits no polygon_shape_changed record at a motion event
\* and, when the handle was dragged, exactly one at the release, from the
\* polygon at press time to the polygon at release time.
C26_OneRecordPerDrag ==
    [][/\ op'.name = "mouseMoveEvent" =>
              ep'.polygon_shape_changed = ep.polygon_shape_changed
       /\ (op'.name = "mouseReleaseEvent" /\ ep.grab.has_dragged) =>
              ep'.polygon_shape_changed =
                  << [old_polygon |-> ep.grab.polygon, new_polygon |-> ep.polygon] >>]_vars

\* --------------------------------------------------------------- the eraser
\* Points are <<x, y>> with integer coordinates; a polygon of the eraser's
\* scene is the sequence of its vertices.
RectA == << <<4, 4>>, <<8, 4>>, <<8, 8>>, <<4, 8>> >>
RectB == << <<12, 4>>, <<16, 4>>, <<16, 8>>, <<12, 8>> >>
\* The scene positions the mouse events of a gesture report.
Positions == { <<1, 1>>, <<1, 5>>, <<5, 1>>, <<5, 5>>, <<9, 5>>, <<13, 5>> }

Cross(o, a, b) == (a[1] - o[1]) * (b[2] - o[2]) - (a[2] - o[2]) * (b[1] - o[1])

Min(a, b) == IF a <= b THEN a ELSE b
Max(a, b) == IF a >= b THEN a ELSE b

\* r lies in the bounding box of the segment p-q.
InBox(p, q, r) ==
    /\ Min(p[1], q[1]) <= r[1] /\ r[1] <= Max(p[1], q[1])
    /\ Min(p[2], q[2]) <= r[2] /\ r[2] <= Max(p[2], q[2])

SegmentsIntersect(p1, p2, q1, q2) ==
    LET d1 == Cross(q1, q2, p1)
        d2 == Cross(q1, q2, p2)
        d3 == Cross(p1, p2, q1)
        d4 == Cross(p1, p2, q2)
    IN  \/ /\ (d1 > 0 /\ d2 < 0) \/ (d1 < 0 /\ d2 > 0)
           /\ (d3 > 0 /\ d4 < 0) \/ (d3 < 0 /\ d4 > 0)
        \/ d1 = 0 /\ InBox(q1, q2, p1)
        \/ d2 = 0 /\ InBox(q1, q2, p2)
        \/ d3 = 0 /\ InBox(p1, p2, q1)
        \/ d4 = 0 /\ InBox(p1, p2, q2)

\* The k-th edge of a polygon, the last one closing it.
EdgeFrom(polygon, k) == polygon[k]
EdgeTo(polygon, k) == polygon[(k % Len(polygon)) + 1]

\* QPolygonF.containsPoint(point, OddEvenFill): the parity of the edges a
\* horizontal ray from the point crosses; horizontal edges are ignored.
containsPoint(polygon, pos) ==
    LET crossing(k) ==
            LET a == EdgeFrom(polygon, k)
                b == EdgeTo(polygon, k)
                lo == IF a[2] <= b[2] THEN a ELSE b
                hi == IF a[2] <= b[2] THEN b ELSE a
            IN  /\ a[2] # b[2]
                /\ pos[2] >= lo[2]
                /\ pos[2] < hi[2]
                /\ lo[1] * (hi[2] - lo[2]) + (hi[1] - lo[1]) * (pos[2] - lo[2])
                       <= pos[1] * (hi[2] - lo[2])
    IN  /\ Len(polygon) > 0
        /\ Cardinality({k \in 1..Len(polygon) : crossing(k)}) % 2 = 1

\* The geometric answer of polygon.intersects(line_path) for the segment p1-p2.
SegmentIntersectsPolygon(polygon, p1, p2) ==
    \/ containsPoint(polygon, p1)
    \/ containsPoint(polygon, p2)
    \/ \E k \in 1..Len(polygon) :
          SegmentsIntersect(p1, p2, EdgeFrom(polygon, k), EdgeTo(polygon, k))

\* eraser_path.boundingRect(): <<left, top, right, bottom>> of the path's points.
boundingRect(points) ==
    LET xs == {points[k][1] : k \in 1..Len(points)}
        ys == {points[k][2] : k \in 1..Len(points)}
    IN  <<CHOOSE x \in xs : \A x2 \in xs : x <= x2,
          CHOOSE y \in ys : \A y2 \in ys : y <= y2,
          CHOOSE x \in xs : \A x2 \in xs : x >= x2,
          CHOOSE y \in ys : \A y2 \in ys : y >= y2>>

RectCorners(r) == << <<r[1], r[2]>>, <<r[3], r[2]>>, <<r[3], r[4]>>, <<r[1], r[4]>> >>

\* The item's shape intersects the rectangle (Qt.IntersectsItemShape).
RectIntersectsPolygon(r, polygon) ==
    LET c == RectCorners(r)
    IN  \/ \E k \in 1..Len(polygon) :
              /\ r[1] <= polygon[k][1] /\ polygon[k][1] <= r[3]
              /\ r[2] <= polygon[k][2] /\ polygon[k][2] <= r[4]
        \/ \E j \in 1..4 : containsPoint(polygon, c[j])
        \/ \E j \in 1..4, k \in 1..Len(polygon) :
              SegmentsIntersect(EdgeFrom(c, j), EdgeTo(c, j),
                                EdgeFrom(polygon, k), EdgeTo(polygon, k))

\* self.items(eraser_bounds), restricted to the ArtifactPolygonItems: topmost first.
ItemsInBounds(its, sc, points) ==
    SelectSeq(sceneItems(sc),
              LAMBDA i : RectIntersectsPolygon(boundingRect(points), its[i].polygon))

PointInside(polygon, points) ==
    \E k \in 1..Len(points) : containsPoint(polygon, points[k])

PathCrosses(polygon, points) ==
    \E k \in 1..(Len(points) - 1) :
        SegmentIntersectsPolygon(polygon, points[k], points[k + 1])

\* The stroke's bounds meet the polygon, whether or not the stroke does.
eraser_intersects_bounds(polygon, points) ==
    RectIntersectsPolygon(boundingRect(points), polygon)

\* The stroke of the gesture meets the polygon.
eraser_intersects(polygon, points) ==
    PointInside(polygon, points) \/ PathCrosses(polygon, points)

\* Every polygon item in the eraser's bounds taken for erasing, met or not.
PolygonsToEraseAllInBounds(its, sc, points) == ItemsInBounds(its, sc, points)

\* polygons_to_erase of stop_erasing (when intersects() answers).
PolygonsToErase(its, sc, points) ==
    SelectSeq(ItemsInBounds(its, sc, points),
              LAMBDA i : eraser_intersects(its[i].polygon, points))

\* stop_erasing gets to call polygon.intersects(line_path): an item in the
\* bounds holds none of the eraser points.
CallsIntersects(its, sc, points) ==
    /\ Len(points) >= 2
    /\ \E k \in 1..Len(ItemsInBounds(its, sc, points)) :
          ~PointInside(its[ItemsInBounds(its, sc, points)[k]].polygon, points)

\* smooth_eraser_path without np.pad: the 'valid' convolution of the points
\* themselves, which has two points fewer.
smooth_eraser_path_unpadded(points) ==
    IF Len(points) < 3 THEN points
    ELSE [k \in 1..(Len(points) - 2) |->
             <<points[k][1] + points[k + 1][1] + points[k + 2][1],
               points[k][2] + points[k + 1][2] + points[k + 2][2]>>]

\* smooth_eraser_path: a moving average of 3 with the ends repeated; the
\* averaged points are kept times 3.
smooth_eraser_path(points) ==
    IF Len(points) < 3 THEN points
    ELSE LET n == Len(points)
             padded == <<points[1]>> \o points \o <<points[n]>>
         IN  [k \in 1..n |->
                 <<padded[k][1] + padded[k + 1][1] + padded[k + 2][1],
                   padded[k][2] + padded[k + 1][2] + padded[k + 2][2]>>]

\* All points of the line coincide: its flat-capped buffer is empty.
ZeroLength(points) == \A k \in 1..Len(points) : points[k] = points[1]

\* min_area_threshold of process_manual_erasing, in square scene units.
MinAreaThreshold == 100
\* Scene units to one unit of the integer coordinates of RectA and RectB.
GridStep == 10

RECURSIVE ShoelaceSum(_, _)
ShoelaceSum(polygon, k) ==
    IF k = 0 THEN 0
    ELSE ShoelaceSum(polygon, k - 1)
         + EdgeFrom(polygon, k)[1] * EdgeTo(polygon, k)[2]
         - EdgeTo(polygon, k)[1] * EdgeFrom(polygon, k)[2]

\* geom.area of a polygon of the scene, in square scene units.
area(polygon) ==
    LET twice == ShoelaceSum(polygon, Len(polygon))
    IN  ((IF twice < 0 THEN -twice ELSE twice) * GridStep * GridStep) \div 2

\* original_shapely.difference(eraser_polygon): the geoms of the result. Which
\* one comes out depends on the brush size and on the stroke; all are kept. The
\* geoms are parts of the polygon's bounding rectangle b = <<left, top, right,
\* bottom>>: all but a strip at the right (big), a strip at the left, the right
\* half, and two triangles at the right edge (chip, tiny) that touch the big
\* part in a point at most.
difference(polygon) ==
    LET b == boundingRect(polygon)
        big == RectCorners(<<b[1], b[2], b[3] - 1, b[4]>>)
        left == RectCorners(<<b[1], b[2], b[1] + 1, b[4]>>)
        right == RectCorners(<<b[1] + 2, b[2], b[3], b[4]>>)
        chip == << <<b[3], b[2]>>, <<b[3], b[2] + 2>>, <<b[3] - 1, b[2] + 1>> >>
        tiny == << <<b[3], b[4] - 1>>, <<b[3], b[4]>>, <<b[3] - 1, b[4]>> >>
    IN  { <<>>, <<tiny>>, <<big>>, <<big, tiny>>, <<left, right>>, <<big, chip>> }

\* result_polygons with every geom of the result kept, whatever its area.
result_polygons_unfiltered(result) == result

\* result_polygons: the geoms of the result whose area reaches the threshold.
result_polygons(result) ==
    SelectSeq(result, LAMBDA geom : area(geom) >= MinAreaThreshold)

\* The eraser polygon of the call exists: eraser_path_to_polygon returned one.
\* A line the averaging collapses has zero length only up to rounding, so both
\* answers are kept for it.
EraserPolygonMade(polygons_to_erase, points) ==
    IF polygons_to_erase = <<>> \/ points = <<>> THEN {FALSE}
    ELSE IF ZeroLength(points) THEN {FALSE}
    ELSE IF ZeroLength(smooth_eraser_path(points)) THEN {FALSE, TRUE}
    ELSE {TRUE}

\* process_manual_erasing: outcomes of the call: the text items left in the
\* scene, the item the loop took, the difference result and the geoms kept of
\* it. With an eraser polygon the first item loses its
\* label item, then reading its background_item raises AttributeError in
\* either branch, which the method's except clause swallows: no item is
\* removed or created and attribute_changed is not emitted.
process_manual_erasing(its, polygons_to_erase, points, text_items) ==
    { IF made
      THEN [text_items |-> text_items \ {polygons_to_erase[1]},
            original |-> polygons_to_erase[1],
            result |-> result,
            result_polygons |-> result_polygons(result)]
      ELSE NoErasing(text_items) :
        made \in EraserPolygonMade(polygons_to_erase, points),
        result \in IF polygons_to_erase = <<>> THEN {<<>>}
                   ELSE difference(its[polygons_to_erase[1]].polygon) }

\* How a stroke lies to the artifacts of the scene: "short" with fewer than two
\* points, "hit" when it meets a polygon, "near" when it meets none but one
\* lies in its bounds, "far" otherwise.
StrokeKind(its, sc, points) ==
    IF Len(points) < 2 THEN "short"
    ELSE IF \E k \in 1..Len(sc) : eraser_intersects(its[sc[k]].polygon, points)
         THEN "hit"
    ELSE IF ItemsInBounds(its, sc, points) # <<>> THEN "near"
    ELSE "far"

\* "Clean up visual feedback"
CleanUp(e) ==
    IF e.eraser_item
    THEN [e EXCEPT !.path_items = @ - 1, !.eraser_item = FALSE,
                   !.eraser_path = None, !.eraser_points = <<>>]
    ELSE e

EraserCall(name, e) ==
    /\ er' = e
    /\ op' = Op(name, "Eraser")
    /\ emitted' = 0
    /\ UNCHANGED <<items, scene, undoStack, index, pending, pushes, snaps, ep, mw>>

\* start_erasing: a new path and feedback item; an item of an unfinished
\* gesture stays in the scene.
start_erasing(e, position) ==
    [e EXCEPT !.eraser_path = <<position>>, !.eraser_item = TRUE,
              !.path_items = @ + 1, !.eraser_points = <<position>>,
              !.raised = None, !.erasing = NoErasing(e.text_items)]

\* erase: returns when there is no path; no test of the distance to the last
\* point.
erase(e, position) ==
    IF e.eraser_path = None
    THEN [e EXCEPT !.raised = None, !.erasing = NoErasing(e.text_items)]
    ELSE [e EXCEPT !.eraser_path = Append(@, position),
                   !.eraser_points = IF e.eraser_item THEN Append(@, position) ELSE @,
                   !.raised = None, !.erasing = NoErasing(e.text_items)]

\* The eraser state at the start of stop_erasing, with the record of the stroke.
StopStart(its, sc, e) ==
    [e EXCEPT !.raised = None, !.stroke = StrokeKind(its, sc, e.eraser_points),
              !.erasing = NoErasing(e.text_items)]

\* stop_erasing: the outcomes of the call. QPolygonF.intersects is declared for
\* a QPolygonF and is handed a QPainterPath: the call either raises TypeError
\* (type_error), which ends stop_erasing before anything is erased or cleaned
\* up, or answers the geometric question.
stop_erasing(its, sc, e, type_error) ==
    IF Len(e.eraser_points) < 2
    THEN (IF type_error THEN {} ELSE {CleanUp(StopStart(its, sc, e))})
    ELSE IF type_error
    THEN (IF CallsIntersects(its, sc, e.eraser_points)
          THEN {[StopStart(its, sc, e) EXCEPT !.raised = "TypeError"]}
          ELSE {})
    ELSE { CleanUp([StopStart(its, sc, e) EXCEPT !.text_items = done.text_items,
                                                 !.erasing = done]) :
             done \in process_manual_erasing(
                          its, PolygonsToErase(its, sc, e.eraser_points),
                          e.eraser_points, e.text_items) }

StartErasing == \E position \in Positions :
    /\ er.path_items < MaxPathItems
    /\ EraserCall("start_erasing", start_erasing(er, position))

Erase == \E position \in Positions :
    /\ Len(er.eraser_points) < MaxStroke
    /\ EraserCall("erase", erase(er, position))

StopErasing == \E type_error \in BOOLEAN :
    \E e \in stop_erasing(items, scene, er, type_error) :
        EraserCall("stop_erasing", e)

InitErase ==
    /\ items = <<[polygon |-> RectA, text_attribute |-> "A", pen |-> "red3",
                  brush |-> "red50"],
                 [polygon |-> RectB, text_attribute |-> "", pen |-> DefaultPen,
                  brush |-> DefaultBrush]>>
    /\ scene = <<1, 2>>
    /\ undoStack = <<>>
    /\ index = 0
    /\ pending = NoPending
    /\ op = Op("init", "None")
    /\ emitted = 0
    /\ pushes = 0
    /\ snaps = <<>>
    /\ ep = IdleEp
    /\ \E shown \in {{}, {1}} :
          er = [IdleEr EXCEPT !.text_items = shown, !.erasing = NoErasing(shown)]
    /\ mw = IdleMw

NextErase ==
    \/ StartErasing
    \/ Erase
    \/ StopErasing

SpecErase == InitErase /\ [][NextErase]_vars

\* What the scene shows of the artifacts: the polygon items with their polygon,
\* label, pen and brush, and the label items.
Shown == <<items, scene, er.text_items>>

\* C3: an eraser gesture that changes an artifact adds exactly one entry to the
\* undo stack.
C3_GestureRecordsEntry ==
    [][(op'.name = "stop_erasing" /\ Shown' # Shown) =>
          /\ Len(undoStack') = Len(undoStack) + 1
          /\ index' = index + 1]_vars

\* C10: an eraser gesture whose stroke meets no artifact polygon leaves the
\* artifacts as they were and adds no undo entry.
C10_MissChangesNothing ==
    [][(/\ op'.name = "stop_erasing"
        /\ \A k \in 1..Len(scene) :
              ~eraser_intersects(items[scene[k]].polygon, er.eraser_points)) =>
          /\ Shown' = Shown
          /\ undoStack' = undoStack
          /\ index' = index
          /\ emitted' = 0]_vars

\* C10 witness: a finished gesture of two points or more that met no polygon
\* though one lay in the stroke's bounds, with the label item still shown.
C10_Witness ==
    /\ op = Op("stop_erasing", "Eraser")
    /\ er.raised = None
    /\ er.stroke = "near"
    /\ er.text_items = {1}
    /\ undoStack = <<>>

\* The geoms of a difference result that reach the minimum area.
Surviving(result) ==
    {k \in 1..Len(result) : area(result[k]) >= MinAreaThreshold}

\* The artifacts of scene sc2 that were not in scene sc1.
NewArtifacts(sc1, sc2) == {i \in Range(sc2) : ~InScene(sc1, i)}

\* C11: when the difference of the target's polygon and the eraser region has
\* no piece of area >= 100, process_manual_erasing removes the original
\* artifact and its label item from the scene and adds no replacement.
C11_NoPieceRemovesOriginal ==
    [][(/\ op'.name = "stop_erasing"
        /\ er'.erasing.original # 0
        /\ Surviving(er'.erasing.result) = {}) =>
          /\ ~InScene(scene', er'.erasing.original)
          /\ er'.erasing.original \notin er'.text_items
          /\ NewArtifacts(scene, scene') = {}]_vars

\* C12: when exactly one piece survives an erase of an artifact, the scene
\* afterwards holds exactly one artifact in place of the original: as many
\* artifacts as before, none with the original's polygon, and one with the
\* surviving piece as its polygon and the original's label, pen and brush.
C12_OnePieceReplacesOriginal ==
    [][(/\ op'.name = "stop_erasing"
        /\ er'.erasing.original # 0
        /\ Cardinality(Surviving(er'.erasing.result)) = 1) =>
          LET original == items[er'.erasing.original]
              piece == er'.erasing.result[CHOOSE k \in Surviving(er'.erasing.result) : TRUE]
          IN  /\ Len(scene') = Len(scene)
              /\ \A k \in 1..Len(scene') : items'[scene'[k]].polygon # original.polygon
              /\ Cardinality({k \in 1..Len(scene') :
                                  items'[scene'[k]] = [original EXCEPT !.polygon = piece]}) = 1]_vars

RECURSIVE TotalArea(_, _)
TotalArea(result, k) ==
    IF k = 0 THEN 0 ELSE TotalArea(result, k - 1) + area(result[k])

\* The pieces of a result whose area is at least 10% of the total remaining area.
Significant(result) ==
    {k \in 1..Len(result) : area(result[k]) * 10 >= TotalArea(result, Len(result))}

\* C13: when an erase leaves two or more significant pieces (area >= 10% of the
\* total remaining area), the original artifact is removed and exactly one new
\* artifact is created per significant piece, each with the original's label;
\* a piece that is not significant produces no artifact, even with area >= 100.
C13_SplitPerSignificantPiece ==
    [][(/\ op'.name = "stop_erasing"
        /\ er'.erasing.original # 0) =>
          LET result == er'.erasing.result
              original == items[er'.erasing.original]
              made(k) == {i \in NewArtifacts(scene, scene') :
                              items'[i].polygon = result[k]}
          IN  /\ Cardinality(Significant(result)) >= 2 =>
                    /\ ~InScene(scene', er'.erasing.original)
                    /\ Cardinality(NewArtifacts(scene, scene'))
                           = Cardinality(Significant(result))
                    /\ \A k \in Significant(result) :
                          /\ Cardinality(made(k)) = 1
                          /\ \A i \in made(k) :
                                items'[i].text_attribute = original.text_attribute
              /\ \A k \in (1..Len(result)) \ Significant(result) : made(k) = {}]_vars

Candidate(polygon, points) ==
    /\ Len(points) >= 2
    /\ LET a == boundingRect(polygon)
           b == boundingRect(points)
       IN  /\ a[1] <= b[3] /\ b[1] <= a[3]
           /\ a[2] <= b[4] /\ b[2] <= a[4]
    /\ \/ \E k \in 1..Len(points) : containsPoint(polygon, points[k])
       \/ \E k \in 1..(Len(points) - 1), e \in 1..Len(polygon) :
             SegmentsIntersect(points[k], points[k + 1],
                               EdgeFrom(polygon, e), EdgeTo(polygon, e))

\* C15: an eraser gesture modifies only candidate artifacts; every artifact
\* that is no candidate keeps its polygon, label and style, stays in the scene
\* and keeps its label item as it was.
C15_OnlyCandidatesModified ==
    [][op'.name = "stop_erasing" =>
          \A k \in 1..Len(scene) :
              ~Candidate(items[scene[k]].polygon, er.eraser_points) =>
                  /\ InScene(scene', scene[k])
                  /\ items'[scene[k]] = items[scene[k]]
                  /\ (scene[k] \in er'.text_items) = (scene[k] \in er.text_items)]_vars

\* C15 witness: a gesture that took the labelled artifact for erasing while the
\* other artifact, away from the stroke, is in the scene.
C15_Witness ==
    /\ op = Op("stop_erasing", "Eraser")
    /\ er.erasing.original = 1
    /\ er.stroke = "hit"
    /\ scene = <<1, 2>>
    /\ items[2].polygon = RectB

\* C27: smoothing a stroke returns as many points as it was given: with 3 or
\* more points the window-3 moving average with the end samples repeated (the
\* first and the last point count twice in their averages), with fewer than 3
\* the points themselves.
C27_SmoothKeepsCount ==
    LET points == er.eraser_points
        n == Len(points)
        smoothed == smooth_eraser_path(points)
    IN  /\ Len(smoothed) = n
        /\ n < 3 => smoothed = points
        /\ n >= 3 =>
               /\ smoothed[1] = <<2 * points[1][1] + points[2][1],
                                  2 * points[1][2] + points[2][2]>>
               /\ smoothed[n] = <<points[n - 1][1] + 2 * points[n][1],
                                  points[n - 1][2] + 2 * points[n][2]>>

\* C27 witness: a stroke of three points that do not lie on one spot has been
\* captured, so smoothing moves its points.
C27_Witness ==
    /\ op = Op("erase", "Eraser")
    /\ Len(er.eraser_points) = 3
    /\ er.eraser_points[1] # er.eraser_points[2]
    /\ smooth_eraser_path(er.eraser_points)[2] # smooth_eraser_path(er.eraser_points)[1]

\* ------------------------------------------------ modes and stroke capture
\* window_size of the free-hand moving average. The pointer positions of this
\* part are given in 1/window_size world units, which keeps every average an
\* integer.
window_size == 3
\* Largest number of mouse press and move events of one run.
MaxEvents == 4

\* ViewerMode
Modes == {"NORMAL", "POINT", "BRUSH", "ERASER", "FREEHAND", "EDIT"}

\* event.scenePos(): world (1, 5), (2, 5) and (1, 7); the second is 1 world unit
\* from the first, the third exactly 2.
PointerPositions == { <<3, 15>>, <<6, 15>>, <<3, 21>> }

\* distance < 2.0
TooClose(position, last_point) ==
    (position[1] - last_point[1]) * (position[1] - last_point[1])
        + (position[2] - last_point[2]) * (position[2] - last_point[2])
    < (2 * window_size) * (2 * window_size)

\* start_painting: a new path and a new path item; the attributes exist from
\* here on.
start_painting(m, position) ==
    [m EXCEPT !.current_paint_path = <<position>>, !.current_paint_item = "item",
              !.paint_items = @ + 1]

\* paint: reads self.current_paint_item, which raises AttributeError before the
\* first start_painting; extends the path by every position.
paint(m, position) ==
    IF m.current_paint_item = "unset" THEN [m EXCEPT !.raised = "AttributeError"]
    ELSE IF m.current_paint_item = "item"
    THEN [m EXCEPT !.current_paint_path = Append(@, position)]
    ELSE m

\* stop_painting; the item's fade-out is taken as its removal (test_mode).
stop_painting(m) ==
    IF m.current_paint_item = "item"
    THEN [m EXCEPT !.current_paint_item = "None", !.current_paint_path = <<>>,
                   !.paint_items = @ - 1]
    ELSE m

\* The BRUSH branch of mouseReleaseEvent: add_shape_from_paint_path reads
\* self.current_paint_path (AttributeError before the first start_painting,
\* which ends the handler), then stop_painting.
release_brush(m) ==
    IF m.current_paint_item = "unset" THEN [m EXCEPT !.raised = "AttributeError"]
    ELSE stop_painting(m)

start_freehand_drawing(m, position) ==
    [m EXCEPT !.freehand_points = <<position>>, !.freehand_path = "QPainterPath",
              !.freehand_item = TRUE, !.freehand_items = @ + 1]

\* continue_freehand_drawing: skips a position closer than 2.0 to the last point.
continue_freehand_drawing(m, position) ==
    IF m.freehand_path = None \/ ~m.freehand_item THEN m
    ELSE IF /\ m.freehand_points # <<>>
            /\ TooClose(position, m.freehand_points[Len(m.freehand_points)])
    THEN m
    ELSE [m EXCEPT !.freehand_points = Append(@, position)]

cleanup_freehand_drawing(m) ==
    [m EXCEPT !.freehand_items = IF m.freehand_item THEN @ - 1 ELSE @,
              !.freehand_item = FALSE, !.freehand_path = None,
              !.freehand_points = <<>>]

\* finish_freehand_drawing without the closing step: the smoothed points only.
FreehandPolygonOpen(points) ==
    LET n == Len(points)
        padded == <<points[1]>> \o points \o <<points[n]>>
    IN  [k \in 1..n |->
            <<(padded[k][1] + padded[k + 1][1] + padded[k + 2][1]) \div window_size,
              (padded[k][2] + padded[k + 1][2] + padded[k + 2][2]) \div window_size>>]

\* The polygon finish_freehand_drawing emits: the moving average of the points
\* with the ends repeated, closed by the first point when the last differs.
FreehandPolygon(points) ==
    LET n == Len(points)
        padded == <<points[1]>> \o points \o <<points[n]>>
        smoothed_qpoints ==
            [k \in 1..n |->
                <<(padded[k][1] + padded[k + 1][1] + padded[k + 2][1]) \div window_size,
                  (padded[k][2] + padded[k + 1][2] + padded[k + 2][2]) \div window_size>>]
    IN  IF smoothed_qpoints[1] # smoothed_qpoints[n]
        THEN Append(smoothed_qpoints, smoothed_qpoints[1])
        ELSE smoothed_qpoints

\* The random colour of create_polygon_item, as pen and brush.
RandomStyles == { [pen |-> "red2", brush |-> "red50"],
                  [pen |-> "blue2", brush |-> "blue50"] }

\* create_polygon_item: an ArtifactPolygonItem with a random colour.
create_polygon_item(polygon, style) ==
    [NewItem(polygon) EXCEPT !.pen = style.pen, !.brush = style.brush]

\* The artifacts' ItemIsSelectable flags after MainWindow.set_mode(mode): off
\* for every polygon item in the POINT, BRUSH, ERASER and FREEHAND branches, on
\* in the else branch, which NORMAL and EDIT take.
SelectableAfter(m, sc, mode) ==
    IF mode \in {"POINT", "BRUSH", "ERASER", "FREEHAND"}
    THEN m.selectable \ Range(sc)
    ELSE m.selectable \cup Range(sc)

\* The 0-based table rows of a set of polygon items: update_attributes_table
\* fills row i from the i-th polygon item of scene.items().
RowsOf(its, sc) ==
    { i - 1 : i \in { j \in 1..Len(sc) : sceneItems(sc)[j] \in its } }

\* QTableWidget.selectRow for each row in increasing order under
\* ExtendedSelection: with Ctrl held the command is Toggle and the rows add up
\* (the selection was cleared just before), otherwise it is ClearAndSelect and
\* only the last row stays selected.
selectRow(rows, ctrl) ==
    IF ctrl \/ rows = {}
    THEN rows
    ELSE { CHOOSE r \in rows : \A q \in rows : q <= r }

\* MainWindow.handle_scene_selection_changed, connected to
\* scene.selectionChanged: clears the table selection and selects the rows of
\* the selected polygons, the table's signals blocked meanwhile.
handle_scene_selection_changed(m, sc, ctrl) ==
    [m EXCEPT !.table_selected = selectRow(RowsOf(m.selected, sc), ctrl),
              !.handler_runs = @ + 1]

\* MainWindow.handle_table_selection, connected to the table's
\* itemSelectionChanged: returns when no row is selected; otherwise deselects
\* every polygon and calls setSelected(True) on the polygons of the selected
\* rows, which selects the selectable ones; the scene's signals are blocked.
handle_table_selection(m, sc) ==
    IF m.table_selected = {}
    THEN [m EXCEPT !.handler_runs = @ + 1]
    ELSE [m EXCEPT !.selected = { sceneItems(sc)[row + 1] :
                                    row \in { r \in m.table_selected : r < Len(sc) } }
                                \cap m.selectable,
                   !.handler_runs = @ + 1]

\* The checkable tool buttons and the mode each one stands for.
ToolButtons == {"clickDetectBtn", "brushFillBtn", "freeHandBtn", "eraserBtn"}

ButtonMode(btn) ==
    CASE btn = "clickDetectBtn" -> "POINT"
      [] btn = "brushFillBtn" -> "BRUSH"
      [] btn = "freeHandBtn" -> "FREEHAND"
      [] btn = "eraserBtn" -> "ERASER"

\* The buttons the branch of MainWindow.set_mode for a mode unchecks, in the
\* order of the code.
UncheckedBy(mode) ==
    CASE mode = "POINT" -> <<"brushFillBtn", "eraserBtn">>
      [] mode = "BRUSH" -> <<"clickDetectBtn", "eraserBtn">>
      [] mode = "ERASER" -> <<"clickDetectBtn", "brushFillBtn", "freeHandBtn">>
      [] mode = "FREEHAND" -> <<"clickDetectBtn", "brushFillBtn", "eraserBtn">>
      [] OTHER -> <<"clickDetectBtn", "brushFillBtn", "eraserBtn", "freeHandBtn">>

RECURSIVE set_mode(_, _, _)

\* toggle_click_to_detect_mode, toggle_brush_fill_mode, toggle_eraser_mode and
\* toggle_freehand_mode, the slots of the buttons' toggled signal.
toggle_mode(m, sc, btn, checked) ==
    IF checked THEN set_mode(m, sc, ButtonMode(btn))
    ELSE IF m.current_mode = ButtonMode(btn) THEN set_mode(m, sc, "NORMAL")
    ELSE m

\* QAbstractButton.setChecked: a change of the state emits toggled, whose slot
\* runs before setChecked returns.
setChecked(m, sc, btn, checked) ==
    IF (btn \in m.checked) = checked THEN m
    ELSE toggle_mode([m EXCEPT !.checked = IF checked THEN @ \cup {btn} ELSE @ \ {btn}],
                     sc, btn, checked)

RECURSIVE UncheckEach(_, _, _)
UncheckEach(m, sc, btns) ==
    IF btns = <<>> THEN m
    ELSE UncheckEach(setChecked(m, sc, Head(btns), FALSE), sc, Tail(btns))

\* MainWindow.set_mode with the scene's set_mode, as they leave the window: the
\* two mode attributes, the free-hand clean-up, the buttons and the flags. The
\* brush stroke is not touched; the eraser is cleaned up as at the end of
\* stop_erasing. Clearing ItemIsSelectable deselects a selected item, and each
\* deselection emits selectionChanged.
set_mode(m, sc, mode) ==
    LET m1 == UncheckEach([cleanup_freehand_drawing(m) EXCEPT
                               !.current_mode = mode,
                               !.scene_current_mode = mode],
                          sc, UncheckedBy(mode))
    IN  IF m1.selected \subseteq SelectableAfter(m1, sc, mode)
        THEN [m1 EXCEPT !.selectable = SelectableAfter(m1, sc, mode)]
        ELSE handle_scene_selection_changed(
                 [m1 EXCEPT
                      !.selectable = SelectableAfter(m1, sc, mode),
                      !.selected = @ \cap SelectableAfter(m1, sc, mode),
                      !.handler_runs = @ + Cardinality(m1.selected \ SelectableAfter(m1, sc, mode)) - 1],
                 sc, FALSE)

\* The window as a handler finds it: no exception and no signal so far, the
\* state of the left button, and for a press or move its position, counted.
Event(m, position, left_button) ==
    [m EXCEPT !.raised = None, !.polygon_created = 0, !.position = position,
              !.left_button = left_button,
              !.events = IF position = <<>> THEN @ ELSE @ + 1]

ModeCall(name, m, e, its, sc) ==
    /\ mw' = m
    /\ er' = e
    /\ items' = its
    /\ scene' = sc
    /\ op' = Op(name, "Mode")
    /\ emitted' = 0
    /\ UNCHANGED <<undoStack, index, pending, pushes, snaps, ep>>

SetMode == \E mode \in Modes :
    /\ mw.events <= MaxEvents
    /\ ModeCall("set_mode", set_mode(Event(mw, <<>>, mw.left_button), scene, mode),
                [CleanUp(er) EXCEPT !.raised = None,
                                    !.erasing = NoErasing(er.text_items)],
                items, scene)

\* mousePressEvent with the left button.
MousePress == \E position \in PointerPositions :
    /\ mw.events < MaxEvents
    /\ ~mw.left_button
    /\ ModeCall("mousePressEvent",
                IF mw.current_mode = "BRUSH"
                THEN start_painting(Event(mw, position, TRUE), position)
                ELSE IF mw.current_mode = "FREEHAND"
                THEN start_freehand_drawing(Event(mw, position, TRUE), position)
                ELSE Event(mw, position, TRUE),
                IF mw.current_mode = "ERASER" THEN start_erasing(er, position) ELSE er,
                items, scene)

\* mouseMoveEvent with the left button held.
MouseMove == \E position \in PointerPositions :
    /\ mw.events < MaxEvents
    /\ mw.left_button
    /\ ModeCall("mouseMoveEvent",
                IF mw.current_mode = "BRUSH"
                THEN paint(Event(mw, position, TRUE), position)
                ELSE IF mw.current_mode = "FREEHAND"
                THEN continue_freehand_drawing(Event(mw, position, TRUE), position)
                ELSE Event(mw, position, TRUE),
                IF mw.current_mode = "ERASER" THEN erase(er, position) ELSE er,
                items, scene)

\* mouseReleaseEvent of the left button in FREEHAND mode with three points or
\* more: finish_freehand_drawing emits the polygon, handle_freehand_polygon
\* adds a selectable artifact of a random colour, then the stroke is cleaned up.
ReleaseCreates == \E style \in RandomStyles :
    /\ mw.left_button
    /\ mw.current_mode = "FREEHAND"
    /\ Len(mw.freehand_points) >= 3
    /\ Len(items) < MaxItems
    /\ ModeCall("mouseReleaseEvent",
                [cleanup_freehand_drawing(Event(mw, <<>>, FALSE))
                     EXCEPT !.polygon_created = 1,
                            !.selectable = @ \cup {Len(items) + 1}],
                er,
                Append(items, create_polygon_item(FreehandPolygon(mw.freehand_points),
                                                  style)),
                Append(scene, Len(items) + 1))

\* mouseReleaseEvent of the left button otherwise.
MouseRelease == \E type_error \in BOOLEAN :
    /\ mw.left_button
    /\ ~(mw.current_mode = "FREEHAND" /\ Len(mw.freehand_points) >= 3)
    /\ \E e \in IF mw.current_mode = "ERASER"
                THEN stop_erasing(items, scene, er, type_error)
                ELSE IF type_error THEN {} ELSE {er} :
          ModeCall("mouseReleaseEvent",
                   IF mw.current_mode = "BRUSH" THEN release_brush(Event(mw, <<>>, FALSE))
                   ELSE IF mw.current_mode = "FREEHAND"
                   THEN cleanup_freehand_drawing(Event(mw, <<>>, FALSE))
                   ELSE Event(mw, <<>>, FALSE),
                   e, items, scene)

\* The window in Normal mode with one artifact, drawn free-hand earlier.
InitMode ==
    /\ \E style \in RandomStyles :
          items = <<create_polygon_item(
                        FreehandPolygon(<< <<3, 15>>, <<3, 21>>, <<6, 15>>, <<3, 21>> >>),
                        style)>>
    /\ scene = <<1>>
    /\ undoStack = <<>>
    /\ index = 0
    /\ pending = NoPending
    /\ op = Op("init", "None")
    /\ emitted = 0
    /\ pushes = 0
    /\ snaps = <<>>
    /\ ep = IdleEp
    /\ er = IdleEr
    /\ mw = [IdleMw EXCEPT !.selectable = {1}]

NextMode ==
    \/ SetMode
    \/ MousePress
    \/ MouseMove
    \/ ReleaseCreates
    \/ MouseRelease

SpecMode == InitMode /\ [][NextMode]_vars

\* The points each tool has captured: eraser, free-hand, brush.
Captured(m, e) == <<e.eraser_points, m.freehand_points, m.current_paint_path>>

\* C16: while a stroke is captured (brush, eraser or free-hand), extend appends
\* the new point only if its distance to the last captured point exceeds 2
\* world units; extend while no stroke is in progress is a no-op.
C16_ExtendKeepsSpacing ==
    [][op'.name = "mouseMoveEvent" =>
          /\ mw'.raised = None
          /\ \A t \in 1..3 :
                Captured(mw', er')[t] # Captured(mw, er)[t] =>
                    /\ Captured(mw, er)[t] # <<>>
                    /\ Captured(mw', er')[t]
                           = Append(Captured(mw, er)[t], mw'.position)
                    /\ LET last == Captured(mw, er)[t][Len(Captured(mw, er)[t])]
                           dx == mw'.position[1] - last[1]
                           dy == mw'.position[2] - last[2]
                       IN  dx * dx + dy * dy > (2 * window_size) * (2 * window_size)]_vars

\* C17: ending a gesture (stop_erasing, finish_freehand_drawing) always returns
\* the stroke capture of the tool to Idle: no points, no path, no feedback item
\* in the scene; with too few points (fewer than 2 for the eraser, fewer than 3
\* for free-hand) or an invalid stroke geometry the artifacts are unchanged, no
\* polygon-created signal is emitted and no undo entry is created. An invalid
\* geometry is an eraser line of no length or free-hand points that enclose
\* no area.
C17_EndReturnsToIdle ==
    [][(op'.name = "mouseReleaseEvent" /\ mw.current_mode \in {"ERASER", "FREEHAND"}) =>
          /\ mw.current_mode = "ERASER" =>
                /\ er'.eraser_points = <<>> /\ ~er'.eraser_item
                /\ er'.eraser_path = None /\ er'.path_items = 0
          /\ mw.current_mode = "FREEHAND" =>
                /\ mw'.freehand_points = <<>> /\ ~mw'.freehand_item
                /\ mw'.freehand_path = None /\ mw'.freehand_items = 0
          /\ (IF mw.current_mode = "ERASER"
              THEN Len(er.eraser_points) < 2 \/ ZeroLength(er.eraser_points)
              ELSE Len(mw.freehand_points) < 3 \/ area(mw.freehand_points) = 0) =>
                /\ items' = items /\ scene' = scene
                /\ er'.text_items = er.text_items
                /\ mw'.polygon_created = 0
                /\ undoStack' = undoStack]_vars

\* C18: set_mode while a stroke is in progress in any tool discards the partial
\* stroke: afterwards no captured points, path or feedback item remain, no
\* artifact was created or changed and no undo entry exists for it; a move or
\* release event that follows without a new press has no effect.
C18_SetModeDiscardsStroke ==
    [][/\ op'.name = "set_mode" =>
              /\ er'.eraser_points = <<>> /\ ~er'.eraser_item /\ er'.path_items = 0
              /\ er'.eraser_path = None
              /\ mw'.freehand_points = <<>> /\ ~mw'.freehand_item
              /\ mw'.freehand_items = 0 /\ mw'.freehand_path = None
              /\ mw'.current_paint_path = <<>> /\ mw'.current_paint_item # "item"
              /\ mw'.paint_items = 0
              /\ items' = items /\ scene' = scene
              /\ er'.text_items = er.text_items
              /\ undoStack' = undoStack
       /\ (op.name = "set_mode" /\ op'.name \in {"mouseMoveEvent", "mouseReleaseEvent"}) =>
              /\ Captured(mw', er') = Captured(mw, er)
              /\ items' = items /\ scene' = scene
              /\ mw'.raised = None /\ er'.raised = None
              /\ mw'.polygon_created = 0]_vars

\* C19: in EDIT mode every artifact polygon of the scene is in Editing state
\* (registered as editable, is_editing true); in every other mode no polygon is.
C19_EditModeEditsAll ==
    /\ mw.current_mode = "EDIT" => Range(scene) \subseteq mw.editable_polygons
    /\ mw.current_mode # "EDIT" => mw.editable_polygons = {}

\* C20: whenever the mode is not Normal no artifact polygon is selectable,
\* artifacts created in that mode included; in Normal mode every artifact
\* polygon is selectable.
C20_SelectableOnlyInNormal ==
    /\ mw.current_mode # "NORMAL" => Range(scene) \cap mw.selectable = {}
    /\ mw.current_mode = "NORMAL" => Range(scene) \subseteq mw.selectable

\* C28: finishing a free-hand gesture with at least 3 captured points emits
\* freehand_polygon_created exactly once, with a polygon of at least 3 points
\* whose first and last points are equal, and leaves the free-hand state
\* reset: no points, no path, no feedback item. The emitted polygon is the one
\* of the artifact that handle_freehand_polygon adds.
C28_FinishEmitsClosedPolygon ==
    [][(/\ op'.name = "mouseReleaseEvent"
        /\ mw.current_mode = "FREEHAND"
        /\ Len(mw.freehand_points) >= 3) =>
          /\ mw'.polygon_created = 1
          /\ Len(items') = Len(items) + 1
          /\ LET polygon == items'[Len(items')].polygon
             IN  /\ Len(polygon) >= 3
                 /\ polygon[1] = polygon[Len(polygon)]
          /\ mw'.freehand_points = <<>>
          /\ mw'.freehand_path = None
          /\ ~mw'.freehand_item /\ mw'.freehand_items = 0]_vars

\* C28 witness: a stroke of three points that enclose an area was finished;
\* its polygon got a fourth point that closes it.
C28_Witness ==
    /\ op = Op("mouseReleaseEvent", "Mode")
    /\ mw.polygon_created = 1
    /\ Len(items) = 2
    /\ Len(items[2].polygon) = 4
    /\ items[2].polygon[1] # items[2].polygon[2]

\* ------------------------------------- selection sync and the oracle worker
\* (src/app.py, src/SegmentationWorker.py)
MaxRequests == 2

\* The window as a handler finds it: no selection handler has run yet.
Began(m) == [m EXCEPT !.handler_runs = 0]

\* A left click on a selectable polygon (QGraphicsItem's press and release):
\* with Ctrl the polygon's selection is toggled, without it the polygon becomes
\* the only selected item. The scene emits selectionChanged when the selection
\* changed, which runs handle_scene_selection_changed.
click_item(m, sc, i, ctrl) ==
    IF (IF ctrl THEN (m.selected \ {i}) \cup ({i} \ m.selected) ELSE {i}) = m.selected
    THEN m
    ELSE handle_scene_selection_changed(
             [m EXCEPT !.selected = IF ctrl THEN (@ \ {i}) \cup ({i} \ @) ELSE {i}],
             sc, ctrl)

\* A left click on no item: the selection is cleared.
click_empty(m, sc) ==
    IF m.selected = {}
    THEN m
    ELSE handle_scene_selection_changed([m EXCEPT !.selected = {}], sc, FALSE)

\* A click on a table row under ExtendedSelection: with Ctrl the row is
\* toggled, without it the row becomes the only selected one. The table emits
\* itemSelectionChanged when the selection changed.
click_row(m, sc, row, ctrl) ==
    IF (IF ctrl THEN (m.table_selected \ {row}) \cup ({row} \ m.table_selected)
        ELSE {row}) = m.table_selected
    THEN m
    ELSE handle_table_selection(
             [m EXCEPT !.table_selected =
                           IF ctrl THEN (@ \ {row}) \cup ({row} \ @) ELSE {row}],
             sc)

\* MainWindow.update_progress: the bar is hidden at 0 and shown otherwise.
update_progress(m, value) ==
    [m EXCEPT !.progress_bar = [value |-> value, visible |-> value # 0]]

\* SegmentationFromPromptService.run_segmentation: stores the prompt and starts
\* the thread.
run_segmentation(m, sc, prompt) ==
    [m EXCEPT !.segment_worker = [isRunning |-> TRUE, prompt |-> prompt, emitted |-> 0],
              !.requests = @ + 1,
              !.request_items = Len(sc),
              !.request_mode = m.current_mode,
              !.outcome = None]

\* MainWindow.handle_segmentation_with_points: the bar shows 1, then the worker
\* is started with the points prompt.
handle_segmentation_with_points(m, sc) ==
    run_segmentation([m EXCEPT !.progress_bar = [value |-> 1, visible |-> TRUE]],
                     sc, "points_prompt")

\* MainWindow.handle_segmentation_from_paint_data: the bar shows 0, then the
\* worker is started with the painting prompt.
handle_segmentation_from_paint_data(m, sc) ==
    run_segmentation([m EXCEPT !.progress_bar = [value |-> 0, visible |-> TRUE]],
                     sc, "painting_prompt")

\* The progress values a successful run emits, in order: 1 from run, those of
\* generate_mask_with_points or generate_masks_from_painting, 100 from run.
ProgressValues(prompt) ==
    IF prompt = "points_prompt" THEN <<1, 10, 80, 100, 100>> ELSE <<1, 10, 30, 80, 100>>

\* The progress values emitted when the prediction raises: 0 from the except
\* clause of generate_mask_with_points, which generate_masks_from_painting
\* does not have, and 0 from the except clause of run.
FailureValues(prompt) ==
    IF prompt = "points_prompt" THEN <<0, 0>> ELSE <<0>>

Signal(name, value) == [signal |-> name, value |-> value]

\* MainWindow.handle_segmentation_complete without the items: the table is
\* rebuilt by update_attributes_table, whose setRowCount(0) drops the selected
\* rows, and the bar is reset and hidden.
handle_segmentation_complete(m, added) ==
    [m EXCEPT !.table_selected = {},
              !.selectable = @ \cup added,
              !.progress_bar = [value |-> 0, visible |-> FALSE]]

WindowCall(name, m, its, sc) ==
    /\ mw' = m
    /\ items' = its
    /\ scene' = sc
    /\ op' = Op(name, "Window")
    /\ emitted' = 0
    /\ UNCHANGED <<undoStack, index, pending, pushes, snaps, ep, er>>

ClickItem == \E i \in Range(scene), ctrl \in BOOLEAN :
    /\ mw.process = "running"
    /\ i \in mw.selectable
    /\ WindowCall("click_item", click_item(Began(mw), scene, i, ctrl), items, scene)

ClickEmpty ==
    /\ mw.process = "running"
    /\ mw.current_mode \in {"NORMAL", "EDIT"}
    /\ WindowCall("click_empty", click_empty(Began(mw), scene), items, scene)

ClickRow == \E row \in 0..(Len(scene) - 1), ctrl \in BOOLEAN :
    /\ mw.process = "running"
    /\ WindowCall("click_row", click_row(Began(mw), scene, row, ctrl), items, scene)

\* The tool buttons of the window: one mode of each flag branch of set_mode.
WindowSetMode == \E mode \in {"NORMAL", "BRUSH"} :
    /\ mw.process = "running"
    /\ mode # mw.current_mode
    /\ WindowCall("set_mode", set_mode(Began(mw), scene, mode), items, scene)

\* A prompting operation hands its prompt to the worker. The thread of the
\* previous request has finished and its signals have been delivered.
RequestWithPoints ==
    /\ mw.process = "running"
    /\ ~mw.segment_worker.isRunning
    /\ mw.signals = <<>>
    /\ mw.requests < MaxRequests
    /\ WindowCall("handle_segmentation_with_points",
                  handle_segmentation_with_points(Began(mw), scene), items, scene)

RequestFromPaintData ==
    /\ mw.process = "running"
    /\ ~mw.segment_worker.isRunning
    /\ mw.signals = <<>>
    /\ mw.requests < MaxRequests
    /\ WindowCall("handle_segmentation_from_paint_data",
                  handle_segmentation_from_paint_data(Began(mw), scene), items, scene)

\* The worker thread emits its next progress value; the signal is queued for
\* the main thread.
WorkerProgress ==
    /\ mw.process = "running"
    /\ mw.segment_worker.isRunning
    /\ mw.segment_worker.emitted < Len(ProgressValues(mw.segment_worker.prompt))
    /\ WindowCall("progress_updated",
                  [Began(mw) EXCEPT
                       !.signals = Append(@, Signal("progress_updated",
                                       ProgressValues(mw.segment_worker.prompt)
                                           [mw.segment_worker.emitted + 1])),
                       !.segment_worker.emitted = @ + 1],
                  items, scene)

\* The prediction returned: run emits segmentation_complete with the masks,
\* none or one here, and the thread finishes.
WorkerCompletes == \E masks \in 0..1 :
    /\ mw.process = "running"
    /\ mw.segment_worker.isRunning
    /\ mw.segment_worker.emitted = Len(ProgressValues(mw.segment_worker.prompt))
    /\ WindowCall("segmentation_complete",
                  [Began(mw) EXCEPT
                       !.signals = Append(@, Signal("segmentation_complete", masks)),
                       !.segment_worker.isRunning = FALSE,
                       !.outcome = "complete"],
                  items, scene)

\* The prediction raised after its first progress value: the except clauses
\* emit 0, run emits finished and raises the exception again, out of the
\* reimplemented QThread.run. No sys.excepthook is installed: the unhandled
\* exception either ends the process (fatal) or is printed and dropped.
WorkerFails == \E fatal \in BOOLEAN :
    /\ mw.process = "running"
    /\ mw.segment_worker.isRunning
    /\ mw.segment_worker.emitted \in 2..3
    /\ WindowCall("raise",
                  [Began(mw) EXCEPT
                       !.signals = @ \o [k \in 1..Len(FailureValues(mw.segment_worker.prompt))
                                           |-> Signal("progress_updated",
                                                      FailureValues(mw.segment_worker.prompt)[k])],
                       !.segment_worker.isRunning = FALSE,
                       !.outcome = "failed",
                       !.process = IF fatal THEN "aborted" ELSE "running"],
                  items, scene)

\* The main thread's event loop delivers the oldest queued progress signal to
\* update_progress.
DeliverProgress ==
    /\ mw.process = "running"
    /\ mw.signals # <<>>
    /\ Head(mw.signals).signal = "progress_updated"
    /\ WindowCall("update_progress",
                  update_progress([Began(mw) EXCEPT !.signals = Tail(@)],
                                  Head(mw.signals).value),
                  items, scene)

\* The main thread's event loop delivers segmentation_complete to
\* handle_segmentation_complete, which adds one artifact for each mask.
DeliverComplete == \E style \in RandomStyles :
    /\ mw.process = "running"
    /\ mw.signals # <<>>
    /\ Head(mw.signals).signal = "segmentation_complete"
    /\ IF Head(mw.signals).value = 0
       THEN WindowCall("handle_segmentation_complete",
                       handle_segmentation_complete(
                           [Began(mw) EXCEPT !.signals = Tail(@)], {}),
                       items, scene)
       ELSE WindowCall("handle_segmentation_complete",
                       handle_segmentation_complete(
                           [Began(mw) EXCEPT !.signals = Tail(@)], {Len(items) + 1}),
                       Append(items, create_polygon_item(Quad, style)),
                       Append(scene, Len(items) + 1))

\* A window in Normal mode over two artifacts, nothing selected, no request.
InitWindow ==
    /\ items = <<create_polygon_item(Quad, [pen |-> "red2", brush |-> "red50"]),
                 create_polygon_item(Tri, [pen |-> "blue2", brush |-> "blue50"])>>
    /\ scene = <<1, 2>>
    /\ undoStack = <<>>
    /\ index = 0
    /\ pending = NoPending
    /\ op = Op("init", "None")
    /\ emitted = 0
    /\ pushes = 0
    /\ snaps = <<>>
    /\ ep = IdleEp
    /\ er = IdleEr
    /\ mw = [IdleMw EXCEPT !.selectable = {1, 2}]

NextWindow ==
    \/ ClickItem
    \/ ClickEmpty
    \/ ClickRow
    \/ WindowSetMode
    \/ RequestWithPoints
    \/ RequestFromPaintData
    \/ WorkerProgress
    \/ WorkerCompletes
    \/ WorkerFails
    \/ DeliverProgress
    \/ DeliverComplete

SpecWindow == InitWindow /\ [][NextWindow]_vars

\* C29: after a selection change in the scene or in the table, once its
\* handler has run, the selected table rows are the rows of the selected
\* polygons, and a click ran exactly one handler.
C29_SelectionInSync ==
    [][(op'.kind = "Window" /\ mw'.handler_runs > 0) =>
          /\ mw'.table_selected = RowsOf(mw'.selected, scene')
          /\ op'.name # "set_mode" => mw'.handler_runs = 1]_vars

\* C30: when a prediction has failed, the scene has the artifacts it had at
\* the request, the process runs on with the worker's thread finished, and
\* once the queued signals are delivered the progress bar is at 0 and hidden.
C30_FailureResetsProgress ==
    (mw.outcome = "failed") =>
        /\ Len(scene) = mw.request_items
        /\ mw.process = "running"
        /\ ~mw.segment_worker.isRunning
        /\ mw.signals = <<>> => mw.progress_bar = [value |-> 0, visible |-> FALSE]

\* C31: a result delivered after the mode was changed since its request is
\* dropped: handle_segmentation_complete adds no artifact to the scene.
C31_LateResultDropped ==
    [][(/\ op'.name = "handle_segmentation_complete"
        /\ mw.current_mode # mw.request_mode) =>
          Len(scene') = Len(scene)]_vars

\* C32: when the processing of an erase fails at a candidate, the gesture is
\* abandoned with the document unchanged: the artifacts, the scene and the
\* label items in the scene are what they were before the gesture ended.
\* Every call that reaches a candidate fails at it (see C11).
C32_FailedEraseChangesNothing ==
    [][(op'.name = "stop_erasing" /\ er'.erasing.original # 0) =>
          /\ items' = items
          /\ scene' = scene
          /\ er'.text_items = er.text_items]_vars

\* C33: every step leaves each artifact it created or changed with a polygon
\* of at least 3 distinct vertices whose closing point is not stored twice
\* (the last point differs from the first).
C33_ArtifactPolygonsWellFormed ==
    [][\A i \in 1..Len(items') :
          (i > Len(items) \/ items'[i].polygon # items[i].polygon) =>
              /\ Cardinality(Range(items'[i].polygon)) >= 3
              /\ items'[i].polygon[1] # items'[i].polygon[Len(items'[i].polygon)]]_vars

EraseFirst ==
    /\ undoStack = <<>>
    /\ PrepareErase

DeleteLater ==
    /\ undoStack # <<>>
    /\ pending = NoPending
    /\ \E i \in Range(scene) :
          PushedWithin(RedoCmd(items, scene, DeletePolygonCommand(items, i)),
                       SceneBag(items, scene), MaxPushes + 1)
    /\ UNCHANGED <<ep, er, mw>>

NextErased ==
    \/ EraseFirst
    \/ PushErase
    \/ DeleteLater
    \/ Undo
    \/ Redo

SpecErased == InitLedger /\ [][NextErased]_vars

\* The artifacts a list of data dictionaries describes, by value.
DataBag(data) ==
    SceneBag([k \in 1..Len(data) |-> ItemFromData(data[k])],
             [k \in 1..Len(data) |-> k])

\* C35: the artifacts an undo of an erase entry takes out of the scene are
\* among that entry's recorded results, and those its redo takes out are among
\* its recorded originals, by polygon, label, pen and brush.
C35_EraseUndoRemovesOwnResults ==
    [][/\ op' = Op("undo", "Erase") =>
             (SceneBag(items, scene) (-) SceneBag(items', scene'))
                 \sqsubseteq DataBag(undoStack[index].new_data)
       /\ op' = Op("redo", "Erase") =>
             (SceneBag(items, scene) (-) SceneBag(items', scene'))
                 \sqsubseteq DataBag(undoStack[index + 1].original_data)]_vars

\* ------------------------------ ModifyPolygonCommand on an editable polygon
\* The shapes the commands switch the polygon between.
moved_polygon == << <<3, 3>>, <<5, 3>>, <<5, 5>>, <<3, 5>> >>
EditPolygons == {triangle, test_polygon, moved_polygon}

\* ModifyPolygonCommand.undo / redo on an EditablePolygonItem with no label,
\* pen or brush supplied: setPolygon, then create_node_handles.
ModifyEditable(e, polygon) ==
    [create_node_handles([e EXCEPT !.polygon = polygon]) EXCEPT !.polygon_modified = 0]

ModifyCall(name, e, stack, k) ==
    /\ ep' = e
    /\ undoStack' = stack
    /\ index' = k
    /\ op' = Op(name, "ModifyPolygon")
    /\ UNCHANGED <<items, scene, pending, emitted, snaps, er, mw>>

\* undo_stack.push(ModifyPolygonCommand(scene, item, old_polygon, new_polygon))
PushModify == \E new_polygon \in EditPolygons :
    /\ pushes < MaxPushes
    /\ new_polygon # ep.polygon
    /\ pushes' = pushes + 1
    /\ ModifyCall("push", ModifyEditable(ep, new_polygon),
                  Append(SubSeq(undoStack, 1, index),
                         ModifyPolygonCommand(0, ep.polygon, new_polygon,
                                              None, None, None, None, None, None)),
                  index + 1)

UndoModify ==
    /\ index > 0
    /\ ModifyCall("undo", ModifyEditable(ep, undoStack[index].old_polygon),
                  undoStack, index - 1)
    /\ UNCHANGED pushes

RedoModify ==
    /\ index < Len(undoStack)
    /\ ModifyCall("redo", ModifyEditable(ep, undoStack[index + 1].new_polygon),
                  undoStack, index + 1)
    /\ UNCHANGED pushes

NextModify ==
    \/ SetEditingMode
    \/ SelectNode
    \/ PushModify
    \/ UndoModify
    \/ RedoModify

SpecModify == InitNode /\ [][NextModify]_vars

\* C36: a polygon that is not in Editing state has no node handles, after any
\* sequence of set_editing_mode calls and of undo / redo of
\* ModifyPolygonCommand entries that target it.
C36_HandlesOnlyWhileEditing == Len(ep.node_handles) > 0 => ep.is_editing

\* ------------------------------------------------------- the tool buttons
\* A click on a tool button toggles it, which runs its slot.
ClickToolButton == \E btn \in ToolButtons :
    /\ mw.process = "running"
    /\ WindowCall("toggled", setChecked(Began(mw), scene, btn, btn \notin mw.checked),
                  items, scene)

\* export_svg: the brush and the click-to-detect slots are called with False.
ExportSvg ==
    /\ mw.process = "running"
    /\ WindowCall("export_svg",
                  toggle_mode(toggle_mode(Began(mw), scene, "brushFillBtn", FALSE),
                              scene, "clickDetectBtn", FALSE),
                  items, scene)

NextTools ==
    \/ ClickToolButton
    \/ ExportSvg
    \/ ClickItem
    \/ ClickEmpty
    \/ ClickRow

SpecTools == InitWindow /\ [][NextTools]_vars

\* C37: after any sequence of tool-button toggles at most one tool button is
\* checked, a checked button is the one of the current mode, none is checked
\* in Normal mode, and the window's mode is the scene's mode.
C37_OneToolButtonChecked ==
    /\ Cardinality(mw.checked) <= 1
    /\ \A btn \in mw.checked : ButtonMode(btn) = mw.current_mode
    /\ mw.current_mode = "NORMAL" => mw.checked = {}
    /\ mw.current_mode = mw.scene_current_mode

\* ------------------------------------- the oracle worker's stored prompt
\* (src/SegmentationWorker.py) mw.service holds the attributes of the
\* SegmentationFromPromptService object (None is the empty tuple, the data of
\* the k-th request is <<k>>), the position of its thread in run (pc) with the
\* values run has read so far, the prompts dispatched and the prompts the
\* completions were predicted with.
MaxDispatches == 3

Prompt(points, box, painting) ==
    [points_prompt |-> points, bounding_box |-> box, painting_prompt |-> painting]

\* QThread.start: does nothing while the thread is running.
start(w) ==
    IF w.isRunning THEN w
    ELSE [w EXCEPT !.isRunning = TRUE, !.pc = "run",
                   !.foreground_points = <<>>, !.box = <<>>, !.painting = <<>>]

\* SegmentationFromPromptService.run_segmentation(painting_prompt,
\* points_prompt, bounding_box): stores the parameters, then starts the thread.
service_run_segmentation(w, prompt) ==
    start([w EXCEPT !.points_prompt = prompt.points_prompt,
                    !.bounding_box = prompt.bounding_box,
                    !.painting_prompt = prompt.painting_prompt,
                    !.dispatched = Append(@, prompt)])

\* run, up to the branch it takes on the stored prompts.
run_branch(w) ==
    [w EXCEPT !.pc = IF w.points_prompt # <<>> THEN "unpack"
                     ELSE IF w.painting_prompt # <<>> THEN "painting"
                     ELSE "predict"]

\* foreground_points, background_points = self.points_prompt: unpacking None
\* raises, and run leaves through its except clause.
run_unpack(w) ==
    IF w.points_prompt = <<>>
    THEN [w EXCEPT !.isRunning = FALSE, !.pc = "idle", !.raised = @ + 1]
    ELSE [w EXCEPT !.foreground_points = w.points_prompt, !.pc = "box"]

\* The arguments of the prediction are evaluated: self.bounding_box, or
\* self.painting_prompt.
run_arguments(w) ==
    IF w.pc = "box" THEN [w EXCEPT !.box = w.bounding_box, !.pc = "predict"]
    ELSE [w EXCEPT !.painting = w.painting_prompt, !.pc = "predict"]

\* The prediction returns and run emits segmentation_complete.
run_complete(w) ==
    [w EXCEPT !.completions = Append(@, Prompt(w.foreground_points, w.box, w.painting)),
              !.isRunning = FALSE, !.pc = "idle"]

ServiceCall(name, w) ==
    /\ mw' = [mw EXCEPT !.service = w]
    /\ op' = Op(name, "Service")
    /\ UNCHANGED <<items, scene, undoStack, index, pending, emitted, pushes, snaps, ep, er>>

\* handle_segmentation_with_points or handle_segmentation_from_paint_data hands
\* the next prompt to the worker, whatever the worker's thread is doing.
Dispatch == \E with_points \in BOOLEAN :
    /\ Len(mw.service.dispatched) < MaxDispatches
    /\ ServiceCall("run_segmentation",
           service_run_segmentation(mw.service,
               IF with_points
               THEN Prompt(<<Len(mw.service.dispatched) + 1>>,
                           <<Len(mw.service.dispatched) + 1>>, <<>>)
               ELSE Prompt(<<>>, <<>>, <<Len(mw.service.dispatched) + 1>>)))

ThreadBranches ==
    /\ mw.service.pc = "run"
    /\ ServiceCall("run", run_branch(mw.service))

ThreadUnpacks ==
    /\ mw.service.pc = "unpack"
    /\ ServiceCall("run", run_unpack(mw.service))

ThreadEvaluatesArguments ==
    /\ mw.service.pc \in {"box", "painting"}
    /\ ServiceCall("run", run_arguments(mw.service))

ThreadCompletes ==
    /\ mw.service.pc = "predict"
    /\ ServiceCall("segmentation_complete", run_complete(mw.service))

NextService ==
    \/ Dispatch
    \/ ThreadBranches
    \/ ThreadUnpacks
    \/ ThreadEvaluatesArguments
    \/ ThreadCompletes

SpecService == InitWindow /\ [][NextService]_vars

\* C38: each prompt dispatched through run_segmentation is predicted with
\* exactly the data of that dispatch and yields exactly one completion, also
\* when it is dispatched while the previous prediction is running: every
\* completion was predicted with the data of one dispatch, no dispatch has two
\* completions, and once the thread has finished every dispatch has one.
C38_OneCompletionPerDispatch ==
    LET w == mw.service
        CompletionsOf(k) == {j \in 1..Len(w.completions) : w.completions[j] = w.dispatched[k]}
    IN  /\ \A j \in 1..Len(w.completions) :
              \E k \in 1..Len(w.dispatched) : w.completions[j] = w.dispatched[k]
        /\ \A k \in 1..Len(w.dispatched) : Cardinality(CompletionsOf(k)) <= 1
        /\ ~w.isRunning =>
              \A k \in 1..Len(w.dispatched) : Cardinality(CompletionsOf(k)) = 1

\* ------------------------------ prompt sampling in process_erased_region
\* (src/ArtifactGraphicsScene.py 382-615) The scene is one pixel row high and
\* mask_width pixels wide, so a mask is the set of the x of its set pixels and
\* every sampled y is 0. mw.sampling holds the two masks, the position in the
\* function (pc), the component being sampled (0: the whole remaining area),
\* the lengths of the two point lists and the number of requests emitted.
mask_width == 8
grid_size == 5
target_points == 32
padding == 10

\* ndimage.binary_dilation(eraser_mask_array, iterations=2)
binary_dilation(mask) ==
    {x \in 0..(mask_width - 1) : \E e \in mask : x - e \in (0 - 2)..2}

dilated_eraser(s) == binary_dilation(s.eraser_mask_array)
remaining_area(s) == s.polygon_mask_array \ dilated_eraser(s)

MinOf(S) == CHOOSE x \in S : \A y \in S : x <= y
MaxOf(S) == CHOOSE x \in S : \A y \in S : y <= x

\* ndimage.label on a row: the maximal runs of set pixels, from left to right.
RECURSIVE LabelFrom(_, _)
LabelFrom(mask, x) ==
    IF \A y \in mask : y < x THEN <<>>
    ELSE LET lo == MinOf({y \in mask : y >= x})
             hi == MaxOf({y \in mask : y >= lo /\ lo..y \subseteq mask})
         IN  <<lo..hi>> \o LabelFrom(mask, hi + 1)

label(mask) == LabelFrom(mask, 0)

\* The components with more than 10% of the remaining area.
significant_components(s) ==
    SelectSeq(label(remaining_area(s)),
              LAMBDA c : 10 * Cardinality(c) > Cardinality(remaining_area(s)))

\* The mask whose pixels are foreground in the pass at hand.
ForegroundMask(s) ==
    IF s.component = 0 THEN remaining_area(s)
    ELSE significant_components(s)[s.component]

\* [min_x, max_x] of the mask with the padding, clipped to the image.
BoundingBox(mask) ==
    [min_x |-> IF MinOf(mask) - padding < 0 THEN 0 ELSE MinOf(mask) - padding,
     max_x |-> IF MaxOf(mask) + padding > mask_width - 1 THEN mask_width - 1
               ELSE MaxOf(mask) + padding]

\* int(min_x + (i + 0.5) * (max_x - min_x) / grid_size)
GridX(box, i) == box.min_x + ((2 * i + 1) * (box.max_x - box.min_x)) \div (2 * grid_size)

\* int(min_x + np.random.random() * (max_x - min_x)): random() is below 1.
RandomX(box) ==
    IF box.max_x > box.min_x THEN box.min_x..(box.max_x - 1) ELSE {box.min_x}

\* The loop whose test is evaluated next, or the code after the loops.
AfterSampling(s) ==
    [s EXCEPT !.pc = IF s.foreground_points < target_points THEN "foreground"
                     ELSE IF s.background_points < target_points THEN "background"
                     ELSE "emit"]

\* The grid pass: grid_size columns, each visited once per grid row.
GridPass(s) ==
    LET fg == ForegroundMask(s)
        box == BoundingBox(fg)
    IN  AfterSampling(
            [s EXCEPT !.foreground_points =
                          grid_size * Cardinality({i \in 0..(grid_size - 1) :
                                                      GridX(box, i) \in fg}),
                      !.background_points =
                          grid_size * Cardinality({i \in 0..(grid_size - 1) :
                              /\ GridX(box, i) \notin fg
                              /\ GridX(box, i) \in s.polygon_mask_array})])

\* process_erased_region up to the first loop: with an empty remaining area
\* min_x is unbound, and the function leaves through its except clause.
StartSampling(s) ==
    IF remaining_area(s) = {}
    THEN [s EXCEPT !.pc = "returned", !.raised = TRUE]
    ELSE GridPass([s EXCEPT !.component = 0])

\* One round of a fill-in loop with the pixel drawn.
FillIn(s, x) ==
    IF s.pc = "foreground"
    THEN IF x \in ForegroundMask(s)
         THEN AfterSampling([s EXCEPT !.foreground_points = @ + 1])
         ELSE s
    ELSE IF x \in s.polygon_mask_array /\ x \notin ForegroundMask(s)
         THEN AfterSampling([s EXCEPT !.background_points = @ + 1])
         ELSE s

\* The code after the loops of a pass: the request or requests are emitted,
\* a true split goes on to the pass of its next significant component.
Emit(s) ==
    IF s.component = 0 /\ Len(label(remaining_area(s))) > 1
                       /\ Len(significant_components(s)) > 1
    THEN GridPass([s EXCEPT !.component = 1])
    ELSE IF s.component > 0 /\ s.component < Len(significant_components(s))
    THEN GridPass([s EXCEPT !.component = @ + 1, !.emitted = @ + 1])
    ELSE [s EXCEPT !.pc = "returned", !.emitted = @ + 1]

SamplingCall(name, s) ==
    /\ mw' = [mw EXCEPT !.sampling = s]
    /\ op' = Op(name, "Sampling")
    /\ UNCHANGED <<items, scene, undoStack, index, pending, emitted, pushes, snaps, ep, er>>

ProcessErasedRegion ==
    /\ mw.sampling.pc = "called"
    /\ SamplingCall("process_erased_region", StartSampling(mw.sampling))

FillInRound == \E x \in 0..(mask_width - 1) :
    /\ mw.sampling.pc \in {"foreground", "background"}
    /\ x \in RandomX(BoundingBox(ForegroundMask(mw.sampling)))
    /\ SamplingCall("fill_in", FillIn(mw.sampling, x))

EmitRequest ==
    /\ mw.sampling.pc = "emit"
    /\ SamplingCall("segmentation_with_points_requested", Emit(mw.sampling))

\* The polygon covers a run of pixels or two; the eraser stroke covers up to
\* one pixel before the dilation.
Runs == {a..b : a \in 0..(mask_width - 1), b \in 0..(mask_width - 1)} \ {{}}

InitSampling ==
    /\ items = <<>>
    /\ scene = <<>>
    /\ undoStack = <<>>
    /\ index = 0
    /\ pending = NoPending
    /\ op = Op("init", "None")
    /\ emitted = 0
    /\ pushes = 0
    /\ snaps = <<>>
    /\ ep = IdleEp
    /\ er = IdleEr
    /\ \E polygon \in Runs, eraser \in {{}} \cup {{x} : x \in 0..(mask_width - 1)} :
          mw = [IdleMw EXCEPT !.sampling.polygon_mask_array = polygon,
                              !.sampling.eraser_mask_array = eraser,
                              !.sampling.pc = "called"]

NextSampling ==
    \/ ProcessErasedRegion
    \/ FillInRound
    \/ EmitRequest

\* Every round of a loop that can change the state is taken in the end: a
\* pixel that qualifies is drawn sooner or later.
SpecSampling == InitSampling /\ [][NextSampling]_vars /\ WF_vars(NextSampling)

\* C39: prompt sampling in process_erased_region always terminates, with at
\* most 32 foreground and 32 background points, for every polygon mask and
\* eraser mask.
C39_SamplingTerminates ==
    <>(/\ mw.sampling.pc = "returned"
       /\ mw.sampling.foreground_points <= target_points
       /\ mw.sampling.background_points <= target_points)

\* ------------------------------------- the tangent bookkeeping of the nodes
\* The vertex at 0-based index i before the step is the vertex at index j
\* after it: the same point, which no other vertex of either polygon has.
SameVertex(i, j) ==
    /\ ep.polygon[i + 1] = ep'.polygon[j + 1]
    /\ \A k \in 1..Len(ep.polygon) : ep.polygon[k] = ep.polygon[i + 1] => k = i + 1
    /\ \A k \in 1..Len(ep'.polygon) : ep'.polygon[k] = ep'.polygon[j + 1] => k = j + 1

\* C40: after add_node_at_segment and delete_selected_nodes on a polygon that
\* then has N vertices, tangent_data and show_tangents have entries for
\* exactly the indices 0..N-1, and each vertex that survives the call keeps
\* its tangent data and its visibility flag.
C40_TangentsFollowVertices ==
    [][op'.name \in {"add_node_at_segment", "delete_selected_nodes"} =>
          /\ DOMAIN ep'.tangent_data = 0..(Len(ep'.polygon) - 1)
          /\ DOMAIN ep'.show_tangents = 0..(Len(ep'.polygon) - 1)
          /\ \A i \in DOMAIN ep.show_tangents \cap DOMAIN ep.tangent_data
                      \cap (0..(Len(ep.polygon) - 1)),
                j \in 0..(Len(ep'.polygon) - 1) :
                SameVertex(i, j) =>
                    /\ j \in DOMAIN ep'.show_tangents \cap DOMAIN ep'.tangent_data
                    /\ ep'.show_tangents[j] = ep.show_tangents[i]
                    /\ ep'.tangent_data[j] = ep.tangent_data[i]]_vars

====
